---- MODULE Spec2Model ----
(***************************************************************************)
(* A model of the rezend form store (createFormStore): the field registry, *)
(* the mutation pipeline, the subscription engine with its batched flush,  *)
(* the watch queue and the validation scheduler with its tickets.          *)
(*                                                                         *)
(* Every store operation is a pure operator on a bundle S of the store's   *)
(* closure variables; an action applies one operator to the current bundle *)
(* and installs the result, so one step is one whole handler, the          *)
(* callbacks it invokes included.                                          *)
(*                                                                         *)
(* JavaScript Sets and Maps are kept as duplicate-free sequences, because  *)
(* their iteration order is insertion order.                               *)
(***************************************************************************)
EXTENDS Integers, Sequences, FiniteSets, TLC

VARIABLES
  fields,                  \* fieldLookup: path -> FieldRecord (registered paths only)
  fieldOrder,              \* iteration order of the Map `fields`
  fieldValidators,         \* Map path -> validator Set (a heap reference)
  lists,                   \* heap of validator Sets: reference -> sequence
  removers,                \* removers returned by addValidator that callers hold
  cleanups,                \* paths whose unregister function callers hold
  validationTracker,       \* Map path -> bucket.pending
  runs,                    \* validations waiting for their promises
  subs,                    \* Subscription entries ever created: id -> entry
  subscribers,             \* the Set `subscribers`
  subscribersByPath,       \* Map path -> Set of subscriptions
  subscriberCount,
  watchers,                \* WatchSubscription entries ever created: id -> entry
  specificWatchers,        \* Map pattern -> Set of watch entries
  totalSpecificWatchers,
  totalEventListeners,
  eventListeners,          \* Map event -> listener Set (its identity and its members)
  listenerSets,            \* listener Sets created so far
  offs,                    \* removers returned by on that callers hold
  pluginCleanups,          \* cleanups of plugin setups and of event listeners
  middlewareBag,
  hasMiddleware,
  simpleWriteFastPathEnabled,
  isNotificationScheduled,
  hasChangedInBatch,
  changedPathsInBatch,
  watchQueue,
  microtasks,              \* flushNotifications microtasks queued and not yet run
  out,                     \* what the last operation did: callbacks, events, result
  moved,                   \* history: subscriptions whose selector left the value last
                           \* delivered at some point of the current batch
  scenario,                \* history: progress of register / set / set back on a path
  twin,                    \* a second store given the same calls (its bundle)
  tree,                    \* the objects the path utilities work on, and their last call
  handles                  \* history: the unregister functions register has returned,
                           \* and those of them that have been called

vars == <<fields, fieldOrder, fieldValidators, lists, removers, cleanups, validationTracker,
          runs, subs, subscribers, subscribersByPath, subscriberCount, watchers,
          specificWatchers, totalSpecificWatchers, totalEventListeners,
          eventListeners, listenerSets, offs, pluginCleanups, middlewareBag,
          hasMiddleware, simpleWriteFastPathEnabled, isNotificationScheduled,
          hasChangedInBatch, changedPathsInBatch, watchQueue, microtasks, out,
          moved, scenario, twin, tree, handles>>

-----------------------------------------------------------------------------
(* Bounds of the model.                                                    *)

\* subscriptions created over the life of a store
MaxSubs == 1
\* tickets issued per path (asynchronous validations started)
MaxTicket == 2
\* validator Sets alive at once
MaxLists == 2
\* removers kept by callers
MaxRemovers == 2
\* subscriptions created over the life of a store whose callbacks may call the store
MaxCallingSubs == 2
\* watch registrations created over the life of a store
MaxWatchers == 1
\* entries waiting in the watch queue
MaxQueue == 1
\* cleanups waiting for destroy
MaxCleanups == 2
\* calls of on over the life of a store
MaxListeners == 2
\* middleware of a store
MaxMiddleware == 2
\* validate calls without a path waiting for their promises
MaxForms == 1

-----------------------------------------------------------------------------
(* JavaScript values.                                                      *)

UNDEF == "undefined"
NULL == "null"

\* a ?? b
Coalesce(a, b) == IF a \in {UNDEF, NULL} THEN b ELSE a

\* Object.is on the model's values: every value is one token
ObjectIs(a, b) == a = b

\* no object graph: the store is what the specification is about
NoTree == [heap |-> <<>>, obj |-> "undefined", op |-> "none", tokens |-> <<>>,
           value |-> "undefined", calls |-> 0]

\* booleans delivered to callbacks, kept apart from the string values
BoolVal(b) == IF b THEN "true" ELSE "false"

SeqToSet(s) == {s[i] : i \in 1..Len(s)}

\* Set.prototype.add
SetAdd(s, x) == IF x \in SeqToSet(s) THEN s ELSE Append(s, x)

\* Set.prototype.delete
SetDelete(s, x) == SelectSeq(s, LAMBDA y : y # x)

\* Map.prototype.delete
MapDelete(m, k) == [x \in DOMAIN m \ {k} |-> m[x]]

\* Map.prototype.set
MapSet(m, k, v) == [x \in DOMAIN m \cup {k} |-> IF x = k THEN v ELSE m[x]]

EmptyMap == [x \in {} |-> 0]

-----------------------------------------------------------------------------
(* The store's closure variables as one bundle.                            *)

Bundle ==
  [fields |-> fields, fieldOrder |-> fieldOrder, fieldValidators |-> fieldValidators,
   lists |-> lists, removers |-> removers, cleanups |-> cleanups,
   validationTracker |-> validationTracker,
   runs |-> runs, subs |-> subs, subscribers |-> subscribers,
   subscribersByPath |-> subscribersByPath, subscriberCount |-> subscriberCount,
   watchers |-> watchers, specificWatchers |-> specificWatchers,
   totalSpecificWatchers |-> totalSpecificWatchers,
   totalEventListeners |-> totalEventListeners, eventListeners |-> eventListeners,
   listenerSets |-> listenerSets, offs |-> offs, pluginCleanups |-> pluginCleanups,
   middlewareBag |-> middlewareBag, hasMiddleware |-> hasMiddleware,
   simpleWriteFastPathEnabled |-> simpleWriteFastPathEnabled,
   isNotificationScheduled |-> isNotificationScheduled,
   hasChangedInBatch |-> hasChangedInBatch,
   changedPathsInBatch |-> changedPathsInBatch, watchQueue |-> watchQueue,
   microtasks |-> microtasks, out |-> out]

Install(T) ==
  /\ fields' = T.fields
  /\ fieldOrder' = T.fieldOrder
  /\ fieldValidators' = T.fieldValidators
  /\ lists' = T.lists
  /\ removers' = T.removers
  /\ cleanups' = T.cleanups
  /\ validationTracker' = T.validationTracker
  /\ runs' = T.runs
  /\ subs' = T.subs
  /\ subscribers' = T.subscribers
  /\ subscribersByPath' = T.subscribersByPath
  /\ subscriberCount' = T.subscriberCount
  /\ watchers' = T.watchers
  /\ specificWatchers' = T.specificWatchers
  /\ totalSpecificWatchers' = T.totalSpecificWatchers
  /\ totalEventListeners' = T.totalEventListeners
  /\ eventListeners' = T.eventListeners
  /\ listenerSets' = T.listenerSets
  /\ offs' = T.offs
  /\ pluginCleanups' = T.pluginCleanups
  /\ middlewareBag' = T.middlewareBag
  /\ hasMiddleware' = T.hasMiddleware
  /\ simpleWriteFastPathEnabled' = T.simpleWriteFastPathEnabled
  /\ isNotificationScheduled' = T.isNotificationScheduled
  /\ hasChangedInBatch' = T.hasChangedInBatch
  /\ changedPathsInBatch' = T.changedPathsInBatch
  /\ watchQueue' = T.watchQueue
  /\ microtasks' = T.microtasks
  /\ out' = T.out

\* a cleanup that returns normally throws Returns; an operation that returns
\* normally has thrown NotThrown
Returns == "no"
NotThrown == "nothing"

\* the record of one operation, started empty when the operation is called
NoResult == [kind |-> "none", ok |-> TRUE, message |-> UNDEF]

NoRun == [ticket |-> 0, superseded |-> FALSE, supersededAsync |-> FALSE,
          inputChanged |-> FALSE, detached |-> FALSE, error |-> "null"]

\* op, path, arg: the call; existed: whether the path was registered when it was made;
\* cb, wcb: the subscriber and watcher callbacks invoked, in order, with what they got;
\* unsub: the unsubscribe functions called, each with the number of subscriber
\* callbacks invoked before it; ev: the events emitted; ret: the value returned;
\* settled: the validation a settle step resolved, with the error its result stands for;
\* mw: the steps of the middleware chain, in order; heard: the event listeners
\* invoked, each with its event; cleaned: the cleanups destroy ran, in order;
\* thrown: what the operation threw; calls: the subscriber and watcher callbacks
\* in the order they were invoked; validated: the validators called, in order, each
\* with the value it was given; got: the paths read's accessor was called with, in
\* order, each with what it returned; epochs: how often the operation advanced the
\* epoch counter
NoOut(op, path, arg, existed) ==
  [op |-> op, path |-> path, arg |-> arg, existed |-> existed, cb |-> <<>>, wcb |-> <<>>,
   unsub |-> <<>>, ev |-> <<>>, ret |-> NoResult, settled |-> NoRun,
   mw |-> <<>>, heard |-> <<>>, cleaned |-> <<>>, thrown |-> NotThrown,
   calls |-> <<>>, validated |-> <<>>, got |-> <<>>, epochs |-> 0]

Begin(S, op, path, arg) ==
  [S EXCEPT !.out = NoOut(op, path, arg, path \in DOMAIN S.fields)]

-----------------------------------------------------------------------------
(* Snapshot getters.                                                       *)

Has(S, path) == path \in DOMAIN S.fields

getTouched(S, path) == IF Has(S, path) THEN S.fields[path].touched ELSE FALSE

getDirty(S, path) == IF Has(S, path) THEN S.fields[path].dirty ELSE FALSE

getError(S, path) == IF Has(S, path) THEN S.fields[path].error ELSE NULL

getValue(S, path) ==
  IF ~Has(S, path) THEN UNDEF
  ELSE IF S.fields[path].mode = "controlled" THEN S.fields[path].controlledValue
       ELSE S.fields[path].uncontrolledValue

\* A selector is [get, path] (one getter on one path) or
\* [get |-> "pick", path, other]: s.getTouched(path) ? s.getValue(other) : s.getValue(path).
\* RunSelector gives the value and the paths the proxied snapshot recorded.
RunSelector(S, sel) ==
  CASE sel.get = "touched" -> [value |-> BoolVal(getTouched(S, sel.path)), deps |-> {sel.path}]
    [] sel.get = "dirty" -> [value |-> BoolVal(getDirty(S, sel.path)), deps |-> {sel.path}]
    [] sel.get = "error" -> [value |-> getError(S, sel.path), deps |-> {sel.path}]
    [] sel.get = "value" -> [value |-> getValue(S, sel.path), deps |-> {sel.path}]
    [] sel.get = "pick" ->
         IF getTouched(S, sel.path)
         THEN [value |-> getValue(S, sel.other), deps |-> {sel.path, sel.other}]
         ELSE [value |-> getValue(S, sel.path), deps |-> {sel.path}]

-----------------------------------------------------------------------------
(* Events and the fast-path flag.                                          *)

\* one listener of emitEvent's loop: it is invoked, and the cleanup it returns is kept
CallListener(S, listener, type) ==
  LET S1 == [S EXCEPT !.out.heard = Append(@, <<listener.name, type>>)]
  IN IF listener.returns # "nothing"
     THEN [S1 EXCEPT !.pluginCleanups =
             Append(@, [from |-> listener.name, throws |-> listener.returns])]
     ELSE S1

RECURSIVE CallListeners(_, _, _, _)
CallListeners(S, listeners, type, i) ==
  IF i > Len(listeners) THEN S
  ELSE CallListeners(CallListener(S, listeners[i], type), listeners, type, i + 1)

\* emitEvent: the call is recorded, and the listeners of the event are invoked
emitEvent(S, type) ==
  LET S1 == [S EXCEPT !.out.ev = Append(@, type)]
  IN IF S1.totalEventListeners = 0 THEN S1
     ELSE IF type \notin DOMAIN S1.eventListeners THEN S1
     ELSE CallListeners(S1, S1.listenerSets[S1.eventListeners[type]], type, 1)

updateSimpleWriteFastPath(S) ==
  [S EXCEPT !.simpleWriteFastPathEnabled =
     /\ ~S.hasMiddleware
     /\ S.subscriberCount = 0
     /\ S.totalSpecificWatchers = 0
     /\ S.totalEventListeners = 0]

-----------------------------------------------------------------------------
(* Mutation pipeline.                                                      *)

\* what an apply callback hands back: the store after it ran and MutationResult
Result(S, changed, hasWatch, watchValue) ==
  [st |-> S, changed |-> changed, hasWatch |-> hasWatch, watchValue |-> watchValue]

\* base without the test of isNotificationScheduled: a microtask per mutation
base_SchedulesEveryTime(type, path, R) ==
  LET S1 == R.st
      shouldNotifySubscribers == Len(S1.subscribers) > 0
      shouldNotifyWatchers == S1.totalSpecificWatchers > 0
      S2 == IF shouldNotifySubscribers
            THEN [S1 EXCEPT !.hasChangedInBatch = TRUE,
                            !.changedPathsInBatch = SetAdd(@, path)]
            ELSE S1
      S3 == IF shouldNotifyWatchers /\ R.hasWatch /\ path \in DOMAIN S2.specificWatchers
            THEN [S2 EXCEPT !.watchQueue = Append(@, [path |-> path, value |-> R.watchValue])]
            ELSE S2
      S4 == IF shouldNotifySubscribers \/ shouldNotifyWatchers
            THEN [S3 EXCEPT !.isNotificationScheduled = TRUE, !.microtasks = @ + 1]
            ELSE S3
  IN IF R.changed THEN emitEvent(S4, "commit") ELSE S1

\* the innermost step of runMutation, given what apply() did and returned
base(type, path, R) ==
  LET S1 == R.st
      shouldNotifySubscribers == Len(S1.subscribers) > 0
      \* wildcardWatchers is never added to (watch refuses patterns with '*')
      shouldNotifyWatchers == S1.totalSpecificWatchers > 0
      S2 == IF shouldNotifySubscribers
            THEN [S1 EXCEPT !.hasChangedInBatch = TRUE,
                            !.changedPathsInBatch = SetAdd(@, path)]
            ELSE S1
      S3 == IF shouldNotifyWatchers /\ R.hasWatch /\ path \in DOMAIN S2.specificWatchers
            THEN [S2 EXCEPT !.watchQueue = Append(@, [path |-> path, value |-> R.watchValue])]
            ELSE S2
      S4 == IF (shouldNotifySubscribers \/ shouldNotifyWatchers) /\ ~S3.isNotificationScheduled
            THEN [S3 EXCEPT !.isNotificationScheduled = TRUE, !.microtasks = @ + 1]
            ELSE S3
  IN IF R.changed THEN emitEvent(S4, "commit") ELSE S1

\* The middleware of the model, by what each does with (next) => (context) => ...:
\*   pass calls next(context); veto returns without calling next;
\*   transform sets context.payload to Replacement and calls next(context).
Replacement == "w"

MiddlewareStep(step, who, type) == [step |-> step, who |-> who, type |-> type]

\* composeMiddleware with reduce in place of reduceRight: the last middleware outermost
RECURSIVE composeMiddleware_LastOutermost(_, _, _, _, _)
composeMiddleware_LastOutermost(mw, i, context, S, R) ==
  IF i > Len(mw)
  THEN [base(context.type, context.path, R)
          EXCEPT !.out.mw = Append(S.out.mw, MiddlewareStep("apply", 0, context.type))]
  ELSE LET m == mw[Len(mw) + 1 - i]
           S1 == [S EXCEPT !.out.mw = Append(@, MiddlewareStep("before", m.id, context.type))]
           context1 == IF m.kind = "transform"
                       THEN [context EXCEPT !.payload = Replacement] ELSE context
       IN IF m.kind = "veto" THEN S1
          ELSE [composeMiddleware_LastOutermost(mw, i + 1, context1, S1, R)
                  EXCEPT !.out.mw = Append(@, MiddlewareStep("after", m.id, context.type))]

\* The function composeMiddleware(mw, base) returns, called with a context, from the
\* i-th middleware inwards: mw.reduceRight((acc, fn) => fn(acc), base) puts the first
\* middleware outermost. S is the store before apply() with the steps made so far;
\* base reads the type and the path of the context it is given, never its payload.
RECURSIVE composeMiddleware(_, _, _, _, _)
composeMiddleware(mw, i, context, S, R) ==
  IF i > Len(mw)
  THEN [base(context.type, context.path, R)
          EXCEPT !.out.mw = Append(S.out.mw, MiddlewareStep("apply", 0, context.type))]
  ELSE LET m == mw[i]
           S1 == [S EXCEPT !.out.mw = Append(@, MiddlewareStep("before", m.id, context.type))]
           context1 == IF m.kind = "transform"
                       THEN [context EXCEPT !.payload = Replacement] ELSE context
       IN IF m.kind = "veto" THEN S1
          ELSE [composeMiddleware(mw, i + 1, context1, S1, R)
                  EXCEPT !.out.mw = Append(@, MiddlewareStep("after", m.id, context.type))]

\* runMutation: S is the store when it is called, R what apply() does to it
runMutation(S, type, path, payload, R) ==
  LET \* ++epoch, when the context is built
      advanced == S.out.epochs + 1
  IN [composeMiddleware(S.middlewareBag, 1,
                        [type |-> type, path |-> path, payload |-> payload], S, R)
        EXCEPT !.out.epochs = advanced]

\* whether the apply callback of the operation ran
Applied(S) == \E i \in 1..Len(S.out.mw) : S.out.mw[i].step = "apply"

-----------------------------------------------------------------------------
(* Field registry.                                                         *)

NoList == 0

FreeLists(S) == {i \in 1..MaxLists : i \notin DOMAIN S.lists}

\* ensureValidatorEntry: the path's validator Set, created when missing
ensureValidatorEntry(S, path) ==
  LET S1 == IF path \in DOMAIN S.fieldValidators THEN S
            ELSE LET id == CHOOSE i \in FreeLists(S) : \A j \in FreeLists(S) : i <= j
                 IN [S EXCEPT !.lists = MapSet(@, id, <<>>),
                              !.fieldValidators = MapSet(@, path, id)]
  IN IF Has(S1, path)
     THEN [S1 EXCEPT !.fields[path].validators = S1.fieldValidators[path]]
     ELSE S1

NewRecord(mode, initialValue) ==
  [mode |-> mode, initialValue |-> initialValue, controlledValue |-> initialValue,
   uncontrolledValue |-> initialValue, touched |-> FALSE, dirty |-> FALSE,
   error |-> NULL, validators |-> NoList]

\* register resetting the touched flag along with dirty when a baseline is supplied
RegisterRecord_FreshFlags(S, path, opts) ==
  LET existing == Has(S, path)
      mode == Coalesce(opts.mode, IF existing THEN S.fields[path].mode ELSE "uncontrolled")
      nextInitialValue ==
        Coalesce(opts.initialValue, IF existing THEN S.fields[path].initialValue ELSE UNDEF)
      r0 == IF existing THEN S.fields[path] ELSE NewRecord(mode, nextInitialValue)
      r1 == [r0 EXCEPT !.mode = mode]
      r2 == IF nextInitialValue # UNDEF /\ (opts.initialValue # UNDEF \/ ~existing)
            THEN [r1 EXCEPT !.initialValue = nextInitialValue,
                            !.controlledValue =
                               IF mode = "controlled" THEN nextInitialValue ELSE @,
                            !.uncontrolledValue = nextInitialValue,
                            !.dirty = FALSE, !.touched = FALSE]
            ELSE r1
      r3 == IF r2.mode = "controlled" /\ r2.controlledValue = UNDEF
            THEN [r2 EXCEPT !.controlledValue = r2.initialValue] ELSE r2
  IN IF r3.mode = "uncontrolled" /\ r3.uncontrolledValue = UNDEF
     THEN [r3 EXCEPT !.uncontrolledValue = r3.initialValue] ELSE r3

\* the FieldRecord register leaves under the path, before the validators are wired
RegisterRecord(S, path, opts) ==
  LET existing == Has(S, path)
      mode == Coalesce(opts.mode, IF existing THEN S.fields[path].mode ELSE "uncontrolled")
      nextInitialValue ==
        Coalesce(opts.initialValue, IF existing THEN S.fields[path].initialValue ELSE UNDEF)
      r0 == IF existing THEN S.fields[path] ELSE NewRecord(mode, nextInitialValue)
      r1 == [r0 EXCEPT !.mode = mode]
      r2 == IF nextInitialValue # UNDEF /\ (opts.initialValue # UNDEF \/ ~existing)
            THEN [r1 EXCEPT !.initialValue = nextInitialValue,
                            !.controlledValue =
                               IF mode = "controlled" THEN nextInitialValue ELSE @,
                            !.uncontrolledValue = nextInitialValue,
                            !.dirty = FALSE]
            ELSE r1
      r3 == IF r2.mode = "controlled" /\ r2.controlledValue = UNDEF
            THEN [r2 EXCEPT !.controlledValue = r2.initialValue] ELSE r2
  IN IF r3.mode = "uncontrolled" /\ r3.uncontrolledValue = UNDEF
     THEN [r3 EXCEPT !.uncontrolledValue = r3.initialValue] ELSE r3

\* the apply callback of register
ApplyRegister(S, path, opts) ==
  LET record == RegisterRecord(S, path, opts)
      \* setFieldRecord
      S1 == [S EXCEPT !.fields = MapSet(@, path, record),
                      !.fieldOrder = SetAdd(@, path)]
      S2 == IF opts.validate # UNDEF
            THEN LET E == ensureValidatorEntry(S1, path)
                     id == E.fieldValidators[path]
                 IN [E EXCEPT !.lists[id] = SetAdd(@, opts.validate),
                              !.fields[path].validators = id]
            ELSE IF path \in DOMAIN S1.fieldValidators
                 THEN [S1 EXCEPT !.fields[path].validators = S1.fieldValidators[path]]
                 ELSE [S1 EXCEPT !.fields[path].validators = NoList]
  IN Result(emitEvent(S2, "register"), TRUE, FALSE, UNDEF)

register(S, path, opts) ==
  runMutation(S, "register", path, opts, ApplyRegister(S, path, opts))

\* deleteFieldRecord: the lookup entry goes only when the Map had the path;
\* a validation in flight keeps the deleted record object
deleteFieldRecord(S, path) ==
  IF path \notin SeqToSet(S.fieldOrder) THEN S
  ELSE [S EXCEPT !.fields = MapDelete(@, path),
                 !.fieldOrder = SetDelete(@, path),
                 !.runs = {IF r.path = path THEN [r EXCEPT !.detached = TRUE] ELSE r : r \in @}]

\* the apply callback of the cleanup that register returns
ApplyUnregister(S, path) ==
  LET existed == path \in SeqToSet(S.fieldOrder)
      S1 == [deleteFieldRecord(S, path) EXCEPT !.fieldValidators = MapDelete(@, path)]
  IN IF existed
     THEN Result(emitEvent(S1, "unregister"), TRUE, TRUE, UNDEF)
     ELSE Result(S1, FALSE, FALSE, UNDEF)

unregister(S, path) ==
  runMutation(S, "unregister", path, UNDEF, ApplyUnregister(S, path))

\* the apply callback of markTouched reporting a change for a path without a record
ApplyMarkTouched_MissingChanges(S, path) ==
  IF Has(S, path) /\ S.fields[path].touched
  THEN Result(S, FALSE, FALSE, UNDEF)
  ELSE IF ~Has(S, path) THEN Result(S, TRUE, FALSE, UNDEF)
  ELSE Result([S EXCEPT !.fields[path].touched = TRUE], TRUE, FALSE, UNDEF)

ApplyMarkTouched(S, path) ==
  IF ~Has(S, path) \/ S.fields[path].touched
  THEN Result(S, FALSE, FALSE, UNDEF)
  ELSE Result([S EXCEPT !.fields[path].touched = TRUE], TRUE, FALSE, UNDEF)

markTouched(S, path) ==
  runMutation(S, "markTouched", path, UNDEF, ApplyMarkTouched(S, path))

ApplyMarkDirty(S, path) ==
  IF ~Has(S, path) \/ S.fields[path].dirty
  THEN Result(S, FALSE, FALSE, UNDEF)
  ELSE Result([S EXCEPT !.fields[path].dirty = TRUE], TRUE, FALSE, UNDEF)

markDirty(S, path) ==
  runMutation(S, "markDirty", path, UNDEF, ApplyMarkDirty(S, path))

\* WriteControlled without the write of dirty
WriteControlled_ValueOnly(S, path, value) ==
  [S EXCEPT !.fields[path].controlledValue = value]

\* the write of the fast path of setControlledValue: value and dirty, each when it changes
WriteControlled(S, path, value) ==
  LET target == S.fields[path]
      nextDirty == ~ObjectIs(value, target.initialValue)
  IN [S EXCEPT !.fields[path].controlledValue = value,
               !.fields[path].dirty = nextDirty]

\* the test of setControlledValue for a write that changes nothing, never met
ControlledUnchanged_Never(S, path, value) ==
  FALSE

\* setControlledValue's test for a write that changes neither the value nor dirty
ControlledUnchanged(S, path, value) ==
  /\ ObjectIs(S.fields[path].controlledValue, value)
  /\ S.fields[path].dirty = ~ObjectIs(value, S.fields[path].initialValue)

\* the apply callback of setControlledValue: it writes the value the caller passed
ApplySetControlledValue(S, path, value) ==
  IF ~Has(S, path) THEN Result(S, FALSE, FALSE, UNDEF)
  ELSE LET target == S.fields[path]
           valueDidChange == ~ObjectIs(target.controlledValue, value)
           nextDirtyState == ~ObjectIs(value, target.initialValue)
           dirtyDidChange == target.dirty # nextDirtyState
           S1 == IF valueDidChange THEN [S EXCEPT !.fields[path].controlledValue = value]
                 ELSE S
           S2 == IF dirtyDidChange THEN [S1 EXCEPT !.fields[path].dirty = nextDirtyState]
                 ELSE S1
       IN IF ~valueDidChange /\ ~dirtyDidChange THEN Result(S, FALSE, FALSE, UNDEF)
          ELSE Result(S2, TRUE, TRUE, value)

\* setControlledValue without the switch of the mode
setControlledValue_KeepsMode(S, path, value) ==
  LET S1 == S
  IN IF ~Has(S, path) THEN S
     ELSE IF ControlledUnchanged(S1, path, value) THEN S1
     ELSE IF S1.simpleWriteFastPathEnabled THEN WriteControlled(S1, path, value)
     ELSE runMutation(S1, "setControlledValue", path, value,
                      ApplySetControlledValue(S1, path, value))

setControlledValue(S, path, value) ==
  LET \* the mode is switched on the record before anything else is looked at
      S1 == IF Has(S, path) THEN [S EXCEPT !.fields[path].mode = "controlled"] ELSE S
  IN IF ~Has(S, path) THEN S
     ELSE IF ControlledUnchanged(S1, path, value) THEN S1
     ELSE IF S1.simpleWriteFastPathEnabled THEN WriteControlled(S1, path, value)
     ELSE runMutation(S1, "setControlledValue", path, value,
                      ApplySetControlledValue(S1, path, value))

\* the loop of read without the test of the mode: controlled fields are read too
RECURSIVE ReadLoop_EveryField(_, _, _, _, _)
ReadLoop_EveryField(A, getDomValue, i, shouldNotifySubscribers, shouldNotifyWatchers) ==
  IF i > Len(A.st.fieldOrder) THEN A
  ELSE
    LET path == A.st.fieldOrder[i]
        record == A.st.fields[path]
        value == getDomValue[path]
        nextDirty == ~ObjectIs(value, record.initialValue)
        valueDiffers == ~ObjectIs(record.uncontrolledValue, value)
        dirtyDiffers == record.dirty # nextDirty
        touchedPaths == IF shouldNotifySubscribers /\ (valueDiffers \/ dirtyDiffers)
                        THEN SetAdd(A.st.changedPathsInBatch, path)
                        ELSE A.st.changedPathsInBatch
        A1 == [st |-> [A.st EXCEPT !.fields[path].uncontrolledValue = value,
                                   !.fields[path].dirty = nextDirty,
                                   !.changedPathsInBatch = touchedPaths,
                                   !.out.got = Append(@, <<path, value>>)],
               dirtyChanged |-> A.dirtyChanged \/ dirtyDiffers,
               valueChanged |-> A.valueChanged \/ valueDiffers,
               watchEvents |-> IF valueDiffers /\ shouldNotifyWatchers
                               THEN Append(A.watchEvents, [path |-> path, value |-> value])
                               ELSE A.watchEvents]
    IN ReadLoop_EveryField(A1, getDomValue, i + 1,
                shouldNotifySubscribers, shouldNotifyWatchers)

\* the loop of read over the fields, from the i-th on; A carries the store and the flags
RECURSIVE ReadLoop(_, _, _, _, _)
ReadLoop(A, getDomValue, i, shouldNotifySubscribers, shouldNotifyWatchers) ==
  IF i > Len(A.st.fieldOrder) THEN A
  ELSE
    LET path == A.st.fieldOrder[i]
        record == A.st.fields[path]
        value == getDomValue[path]
        nextDirty == ~ObjectIs(value, record.initialValue)
        valueDiffers == ~ObjectIs(record.uncontrolledValue, value)
        dirtyDiffers == record.dirty # nextDirty
        touchedPaths == IF shouldNotifySubscribers /\ (valueDiffers \/ dirtyDiffers)
                        THEN SetAdd(A.st.changedPathsInBatch, path)
                        ELSE A.st.changedPathsInBatch
        A1 == [st |-> [A.st EXCEPT !.fields[path].uncontrolledValue = value,
                                   !.fields[path].dirty = nextDirty,
                                   !.changedPathsInBatch = touchedPaths,
                                   !.out.got = Append(@, <<path, value>>)],
               dirtyChanged |-> A.dirtyChanged \/ dirtyDiffers,
               valueChanged |-> A.valueChanged \/ valueDiffers,
               watchEvents |-> IF valueDiffers /\ shouldNotifyWatchers
                               THEN Append(A.watchEvents, [path |-> path, value |-> value])
                               ELSE A.watchEvents]
    IN ReadLoop(IF record.mode = "uncontrolled" THEN A1 ELSE A, getDomValue, i + 1,
                shouldNotifySubscribers, shouldNotifyWatchers)

read(S, getDomValue) ==
  LET shouldNotifySubscribers == Len(S.subscribers) > 0
      shouldNotifyWatchers == S.totalSpecificWatchers > 0
      A == ReadLoop([st |-> S, dirtyChanged |-> FALSE, valueChanged |-> FALSE,
                     watchEvents |-> <<>>],
                    getDomValue, 1, shouldNotifySubscribers, shouldNotifyWatchers)
      changed == A.dirtyChanged \/ A.valueChanged
      S1 == IF changed
            THEN emitEvent([A.st EXCEPT !.hasChangedInBatch =
                                           IF shouldNotifySubscribers THEN TRUE ELSE @],
                           "commit")
            ELSE A.st
      queued == SelectSeq(A.watchEvents, LAMBDA e : e.path \in DOMAIN S1.specificWatchers)
      S2 == [S1 EXCEPT !.watchQueue = @ \o queued]
  IN IF ((shouldNotifySubscribers /\ changed)
          \/ (shouldNotifyWatchers /\ Len(A.watchEvents) > 0))
        /\ ~S2.isNotificationScheduled
     THEN [S2 EXCEPT !.isNotificationScheduled = TRUE, !.microtasks = @ + 1]
     ELSE S2

-----------------------------------------------------------------------------
(* Subscription engine.                                                    *)

\* remove a subscription from the index entries of `paths`, dropping emptied entries
IndexRemove(index, paths, id) ==
  LET m == [p \in DOMAIN index |-> IF p \in paths THEN SetDelete(index[p], id) ELSE index[p]]
  IN [p \in {q \in DOMAIN m : ~(q \in paths /\ m[q] = <<>>)} |-> m[p]]

\* add a subscription to the index entries of `paths`, creating missing entries
IndexAdd(index, paths, id) ==
  [p \in DOMAIN index \cup paths |->
     IF p \in paths THEN SetAdd(IF p \in DOMAIN index THEN index[p] ELSE <<>>, id)
     ELSE index[p]]

\* the function subscribe returns
unsubscribe(S, id) ==
  LET S1 == IF id \in SeqToSet(S.subscribers)
            THEN updateSimpleWriteFastPath(
                   [S EXCEPT !.subscribers = SetDelete(@, id),
                             !.subscriberCount = IF @ > 0 THEN @ - 1 ELSE 0])
            ELSE S
  IN [S1 EXCEPT !.subscribersByPath = IndexRemove(@, S1.subs[id].dependencies, id),
                !.out.unsub = Append(@, <<Len(S1.out.cb), id>>)]

\* What a subscriber callback does when it is invoked: nothing, or it calls the
\* unsubscribe function of another subscription (when that one exists already), or
\* it calls setControlledValue(WrittenPath, WrittenValue), or it throws.
NoCallback == [do |-> "nothing", arg |-> 0]

\* the call the callbacks that write make: setControlledValue("p", "b")
WrittenPath == "p"
WrittenValue == "b"
Writes == [do |-> "set", arg |-> 0]
Throwing == [do |-> "throw", arg |-> 0]

CallSubscriber(S, id, value) ==
  LET S1 == [S EXCEPT !.out.cb = Append(@, <<id, value>>), !.subs[id].seen = value,
                      !.out.calls = Append(@, <<"subscriber", id>>)]
      cb == S.subs[id].callback
  IN IF cb.do = "unsubscribe" /\ cb.arg \in DOMAIN S1.subs
     THEN unsubscribe(S1, cb.arg)
     ELSE IF cb.do = "set" THEN setControlledValue(S1, WrittenPath, WrittenValue)
     ELSE IF cb.do = "throw" THEN [S1 EXCEPT !.out.thrown = "callback"]
     ELSE S1

\* subscribe without the immediate callback.call
subscribe_NoInitialCall(S, selector, callback) ==
  LET id == Cardinality(DOMAIN S.subs) + 1
      first == RunSelector(S, selector)
      entry == [selector |-> selector, callback |-> callback,
                lastValue |-> first.value, dependencies |-> first.deps, seen |-> UNDEF]
      S1 == updateSimpleWriteFastPath(
              [S EXCEPT !.subs = MapSet(@, id, entry),
                        !.subscribers = SetAdd(@, id),
                        !.subscriberCount = @ + 1])
  IN [S1 EXCEPT !.subscribersByPath = IndexAdd(@, first.deps, id)]

subscribe(S, selector, callback) ==
  LET id == Cardinality(DOMAIN S.subs) + 1
      first == RunSelector(S, selector)
      \* seen: the value the callback received last (the caller's view of the entry)
      entry == [selector |-> selector, callback |-> callback,
                lastValue |-> first.value, dependencies |-> first.deps, seen |-> UNDEF]
      S1 == updateSimpleWriteFastPath(
              [S EXCEPT !.subs = MapSet(@, id, entry),
                        !.subscribers = SetAdd(@, id),
                        !.subscriberCount = @ + 1])
      S2 == [S1 EXCEPT !.subscribersByPath = IndexAdd(@, first.deps, id)]
  IN CallSubscriber(S2, id, entry.lastValue)

\* notifySubscribers: every subscriber still in the Set when its turn comes,
\* its selector run on the plain snapshot (no dependencies are recorded)
RECURSIVE notifySubscribers(_, _, _)
notifySubscribers(S, order, i) ==
  IF i > Len(order) \/ S.out.thrown # NotThrown THEN S
  ELSE LET id == order[i]
           nextValue == RunSelector(S, S.subs[id].selector).value
       IN IF id \notin SeqToSet(S.subscribers) \/ ObjectIs(nextValue, S.subs[id].lastValue)
          THEN notifySubscribers(S, order, i + 1)
          ELSE notifySubscribers(
                 CallSubscriber([S EXCEPT !.subs[id].lastValue = nextValue], id, nextValue),
                 order, i + 1)

\* the Set subscribersToNotify of a flush: subscribers of the changed paths, in order
RECURSIVE SubscribersToNotify(_, _, _)
SubscribersToNotify(S, i, acc) ==
  IF i > Len(S.changedPathsInBatch) THEN acc
  ELSE LET path == S.changedPathsInBatch[i]
           pathSubscribers == IF path \in DOMAIN S.subscribersByPath
                              THEN S.subscribersByPath[path] ELSE <<>>
       IN SubscribersToNotify(S, i + 1,
            acc \o SelectSeq(pathSubscribers, LAMBDA s : s \notin SeqToSet(acc)))

\* FlushSubscriber without the Object.is test: a call whenever the selector re-ran
FlushSubscriber_NoSuppression(S, id) ==
  LET oldDependencies == S.subs[id].dependencies
      run == RunSelector(S, S.subs[id].selector)
      newDependencies == run.deps
      S1 == [S EXCEPT !.subs[id].dependencies = newDependencies,
                      !.subscribersByPath =
                         IndexAdd(IndexRemove(@, oldDependencies \ newDependencies, id),
                                  newDependencies \ oldDependencies, id)]
  IN CallSubscriber([S1 EXCEPT !.subs[id].lastValue = run.value], id, run.value)

\* one turn of the loop of flushNotifications over subscribersToNotify
FlushSubscriber(S, id) ==
  LET oldDependencies == S.subs[id].dependencies
      run == RunSelector(S, S.subs[id].selector)
      newDependencies == run.deps
      S1 == [S EXCEPT !.subs[id].dependencies = newDependencies,
                      !.subscribersByPath =
                         IndexAdd(IndexRemove(@, oldDependencies \ newDependencies, id),
                                  newDependencies \ oldDependencies, id)]
  IN IF ObjectIs(run.value, S.subs[id].lastValue) THEN S1
     ELSE CallSubscriber([S1 EXCEPT !.subs[id].lastValue = run.value], id, run.value)

RECURSIVE FlushSubscribers(_, _, _)
FlushSubscribers(S, toNotify, i) ==
  \* a callback that throws ends the loop, and the flush with it
  IF i > Len(toNotify) \/ S.out.thrown # NotThrown THEN S
  ELSE FlushSubscribers(FlushSubscriber(S, toNotify[i]), toNotify, i + 1)

CallWatcher(S, id, event) ==
  [S EXCEPT !.out.wcb = Append(@, <<id, event.path, event.value>>),
            !.out.calls = Append(@, <<"watcher", id>>)]

\* notifyWatchers for one queued event: the watchers registered under its path
RECURSIVE notifyWatchers(_, _, _)
notifyWatchers(S, event, i) ==
  LET specific == IF event.path \in DOMAIN S.specificWatchers
                  THEN S.specificWatchers[event.path] ELSE <<>>
  IN IF i > Len(specific) THEN S
     ELSE notifyWatchers(CallWatcher(S, specific[i], event), event, i + 1)

RECURSIVE FlushWatchQueue(_, _)
FlushWatchQueue(S, index) ==
  IF index > Len(S.watchQueue) THEN S
  ELSE FlushWatchQueue(notifyWatchers(S, S.watchQueue[index], 1), index + 1)

\* the store an operation leaves when an exception ended it early (S), or else the
\* store it leaves when it ran to its end (T)
Unless(threw, S, T) == IF threw THEN S ELSE T

\* flushNotifications with the watch queue processed before the subscribers
flushNotifications_WatchersFirst(S) ==
  LET S1 == FlushWatchQueue(S, 1)
      S2 == IF S1.hasChangedInBatch
            THEN FlushSubscribers(S1, SubscribersToNotify(S1, 1, <<>>), 1)
            ELSE S1
      S3 == [S2 EXCEPT !.hasChangedInBatch = FALSE, !.changedPathsInBatch = <<>>]
  IN [S3 EXCEPT !.watchQueue = <<>>, !.isNotificationScheduled = FALSE]

flushNotifications(S) ==
  LET S1 == IF S.hasChangedInBatch
            THEN FlushSubscribers(S, SubscribersToNotify(S, 1, <<>>), 1)
            ELSE S
      S2 == [S1 EXCEPT !.hasChangedInBatch = FALSE, !.changedPathsInBatch = <<>>]
      S3 == FlushWatchQueue(S2, 1)
  IN Unless(S1.out.thrown # NotThrown, S1,
            [S3 EXCEPT !.watchQueue = <<>>, !.isNotificationScheduled = FALSE])

-----------------------------------------------------------------------------
(* Watch registry.                                                         *)

\* the characters of the patterns of the model
Chars(pattern) ==
  CASE pattern = "p" -> <<"p">>
    [] pattern = "q" -> <<"q">>
    [] pattern = "*" -> <<"*">>
    [] pattern = "p.*" -> <<"p", ".", "*">>

\* pattern.includes(ch)
includes(pattern, ch) == \E i \in 1..Len(Chars(pattern)) : Chars(pattern)[i] = ch

\* watch(pattern, cb): a pattern with '*' is refused and nothing is registered
watch(S, pattern) ==
  LET hasWildcard == includes(pattern, "*")
      id == Cardinality(DOMAIN S.watchers) + 1
  IN IF hasWildcard THEN S
     ELSE updateSimpleWriteFastPath(
            [S EXCEPT !.watchers = MapSet(@, id, [pattern |-> pattern]),
                      !.specificWatchers =
                         MapSet(@, pattern,
                                SetAdd(IF pattern \in DOMAIN @ THEN @[pattern] ELSE <<>>, id)),
                      !.totalSpecificWatchers = @ + 1])

\* the function watch returns
unwatch(S, id) ==
  LET pattern == S.watchers[id].pattern
      registered == pattern \in DOMAIN S.specificWatchers
                    /\ id \in SeqToSet(S.specificWatchers[pattern])
      rest == SetDelete(S.specificWatchers[pattern], id)
  IN IF ~registered THEN S
     ELSE updateSimpleWriteFastPath(
            [S EXCEPT !.totalSpecificWatchers = IF @ > 0 THEN @ - 1 ELSE 0,
                      !.specificWatchers =
                         IF rest = <<>> THEN MapDelete(@, pattern)
                         ELSE MapSet(@, pattern, rest)])

-----------------------------------------------------------------------------
(* Validation scheduler.                                                   *)

\* The validators of the model, by what they return for a value:
\*   vS answers synchronously, vA with a promise; both accept only "a";
\*   vT answers synchronously and accepts only "b"; vU answers synchronously,
\*   accepts only "a" and gives no message; vB answers with a promise and
\*   accepts only "b".
ValidatorResult(validator, value) ==
  CASE validator = "vS" ->
         [async |-> FALSE, ok |-> value = "a",
          message |-> IF value = "a" THEN UNDEF ELSE "eS"]
    [] validator = "vT" ->
         [async |-> FALSE, ok |-> value = "b",
          message |-> IF value = "b" THEN UNDEF ELSE "eT"]
    [] validator = "vU" ->
         [async |-> FALSE, ok |-> value = "a", message |-> UNDEF]
    [] validator = "vB" ->
         [async |-> TRUE, ok |-> value = "b",
          message |-> IF value = "b" THEN UNDEF ELSE "eB"]
    [] validator = "vA" ->
         [async |-> TRUE, ok |-> value = "a",
          message |-> IF value = "a" THEN UNDEF ELSE "eA"]

buildValidationResult(ok, message) ==
  IF ok THEN [ok |-> TRUE, message |-> UNDEF]
  ELSE IF message # NULL THEN [ok |-> FALSE, message |-> message]
  ELSE [ok |-> FALSE, message |-> UNDEF]

\* finalResult.ok ? null : finalResult.message ?? null
NextError(result) == IF result.ok THEN NULL ELSE Coalesce(result.message, NULL)

\* results.find((res) => !res.ok), when there is one
Failing(results) == SelectSeq(results, LAMBDA r : ~r.ok)

Pending(S, path) ==
  IF path \in DOMAIN S.validationTracker THEN S.validationTracker[path] ELSE 0

\* record.validators ?? fieldValidators.get(path), as the sequence of its members
ValidatorsOf(S, path) ==
  LET id == IF S.fields[path].validators # NoList THEN S.fields[path].validators
            ELSE IF path \in DOMAIN S.fieldValidators THEN S.fieldValidators[path]
            ELSE NoList
  IN IF id = NoList THEN <<>> ELSE S.lists[id]

Returned(S, kind, result) ==
  [S EXCEPT !.out.ret = [kind |-> kind, ok |-> result.ok, message |-> result.message]]

\* every validate(path) call supersedes the validations of that path still in flight
\* (history kept for the properties: the code keeps no such mark)
Supersede(S, path, async) ==
  [S EXCEPT !.runs = {IF r.path = path
                      THEN [r EXCEPT !.superseded = TRUE,
                                     !.supersededAsync = @ \/ async]
                      ELSE r : r \in @}]

\* the branch without validators that leaves the error of the record as it is
NoValidators_KeepsError(S, path) ==
  Returned(emitEvent(S, "validate"), "sync", [ok |-> TRUE, message |-> UNDEF])

\* performValidation when the field has no validator: the error is cleared
NoValidators(S, path) ==
  Returned(emitEvent([S EXCEPT !.fields[path].error = NULL], "validate"), "sync",
           [ok |-> TRUE, message |-> UNDEF])

\* the loop over the tasks without the test of syncOk: the last failure is kept
FirstSyncFailure_LastWins(answers) ==
  LET syncFails == SelectSeq(answers, LAMBDA a : ~a.async /\ ~a.ok)
  IN IF syncFails = <<>> THEN NULL
     ELSE Coalesce(syncFails[Len(syncFails)].message, NULL)

\* syncMessage after the loop over the tasks: the message (or null) of the first
\* synchronous result that is not ok, null when there is none
FirstSyncFailure(answers) ==
  LET syncFails == SelectSeq(answers, LAMBDA a : ~a.async /\ ~a.ok)
  IN IF syncFails = <<>> THEN NULL ELSE Coalesce(syncFails[1].message, NULL)

\* performValidation(path) for one field
performValidation(S0, path) ==
  IF ~Has(S0, path)
  THEN Returned(emitEvent(Supersede(S0, path, FALSE), "validate"), "sync",
                [ok |-> TRUE, message |-> UNDEF])
  ELSE
    LET tasks == ValidatorsOf(S0, path)
        record == S0.fields[path]
        value == IF record.mode = "controlled" THEN record.controlledValue
                 ELSE record.uncontrolledValue
        answers == [i \in 1..Len(tasks) |-> ValidatorResult(tasks[i], value)]
        promises == SelectSeq(answers, LAMBDA a : a.async)
        syncFails == SelectSeq(answers, LAMBDA a : ~a.async /\ ~a.ok)
        syncOk == syncFails = <<>>
        syncMessage == FirstSyncFailure(answers)
        S == [Supersede(S0, path, promises # <<>>)
                EXCEPT !.out.validated = @ \o [i \in 1..Len(tasks) |-> <<tasks[i], value>>]]
        ticket == Pending(S, path) + 1
        final == buildValidationResult(syncOk, syncMessage)
    IN IF tasks = <<>>
       THEN NoValidators(S, path)
       ELSE IF promises # <<>>
       THEN Returned(
              [S EXCEPT !.validationTracker = MapSet(@, path, ticket),
                        !.runs = @ \cup {[path |-> path, ticket |-> ticket, value |-> value,
                                          results |-> [i \in 1..Len(promises) |->
                                                         [ok |-> promises[i].ok,
                                                          message |-> promises[i].message]],
                                          syncOk |-> syncOk, syncMessage |-> syncMessage,
                                          tasks |-> tasks, parts |-> <<>>,
                                          detached |-> FALSE, superseded |-> FALSE,
                                          supersededAsync |-> FALSE,
                                          inputChanged |-> FALSE]}],
              "promise", [ok |-> TRUE, message |-> UNDEF])
       ELSE Returned(emitEvent([S EXCEPT !.fields[path].error = NextError(final)], "validate"),
                     "sync", final)

\* store.validate(path)
validate(S, path) ==
  LET S1 == performValidation(S, path)
  IN IF S1.out.ret.kind = "promise" THEN S1
     ELSE notifySubscribers(S1, S1.subscribers, 1)

\* IsStale without the ticket: every resolving validation counts as the latest
IsStale_NeverStale(S, run) == FALSE

\* the staleness test of a resolving validation: bucket.pending !== ticket
IsStale(S, run) == Pending(S, run.path) # run.ticket

\* settle writing to the record that the path names when the promise resolves
settle_ByPath(S0, run) ==
  LET finalResult == IF Failing(run.results) # <<>> THEN Failing(run.results)[1]
                     ELSE buildValidationResult(run.syncOk, run.syncMessage)
      S == [S0 EXCEPT !.runs = @ \ {run},
                      !.out.settled = [f \in DOMAIN NoRun |->
                                         IF f = "error" THEN NextError(finalResult)
                                         ELSE run[f]]]
      S1 == IF ~Has(S, run.path) THEN S
            ELSE [S EXCEPT !.fields[run.path].error = NextError(finalResult)]
  IN IF IsStale(S, run)
     THEN Returned(S, "resolved", [ok |-> TRUE, message |-> UNDEF])
     ELSE Returned(emitEvent(notifySubscribers(S1, S1.subscribers, 1), "validate"),
                   "resolved", finalResult)

\* the continuation Promise.all(promises).then(...) of one validation
settle(S0, run) ==
  LET finalResult == IF Failing(run.results) # <<>> THEN Failing(run.results)[1]
                     ELSE buildValidationResult(run.syncOk, run.syncMessage)
      S == [S0 EXCEPT !.runs = @ \ {run},
                      !.out.settled = [f \in DOMAIN NoRun |->
                                         IF f = "error" THEN NextError(finalResult)
                                         ELSE run[f]]]
      \* the closure writes to the record object it captured, registered or not
      S1 == IF run.detached THEN S
            ELSE [S EXCEPT !.fields[run.path].error = NextError(finalResult)]
  IN IF IsStale(S, run)
     THEN Returned(S, "resolved", [ok |-> TRUE, message |-> UNDEF])
     ELSE Returned(emitEvent(notifySubscribers(S1, S1.subscribers, 1), "validate"),
                   "resolved", finalResult)

\* results.find((res) => !res.ok) ?? {ok: true}, with the last failure for the first
FormResult_LastFailure(results) ==
  LET failed == {i \in 1..Len(results) : ~results[i].ok}
  IN IF failed = {} THEN [ok |-> TRUE, message |-> UNDEF]
     ELSE LET i == CHOOSE k \in failed : \A j \in failed : j <= k
          IN [ok |-> FALSE, message |-> results[i].message]

\* results.find((res) => !res.ok) ?? {ok: true} over the results of the fields
FormResult(results) ==
  LET failed == {i \in 1..Len(results) : ~results[i].ok}
  IN IF failed = {} THEN [ok |-> TRUE, message |-> UNDEF]
     ELSE LET i == CHOOSE k \in failed : \A j \in failed : k <= j
          IN [ok |-> FALSE, message |-> results[i].message]

\* fieldPaths.map((p) => performValidation(p)): the fields from the i-th on; a result
\* is the field's result, or the promise of the validation (path, ticket) in flight
RECURSIVE ValidateFields(_, _, _, _)

\* the i-th field is validated (S1 is the store after performValidation(path)):
\* its result is kept and the map goes on with the next field
FieldValidated(S1, fieldPaths, i, results) ==
  LET path == fieldPaths[i]
      result == [kind |-> S1.out.ret.kind, path |-> path,
                 ticket |-> IF S1.out.ret.kind = "promise" THEN Pending(S1, path) ELSE 0,
                 ok |-> S1.out.ret.ok, message |-> S1.out.ret.message]
  IN ValidateFields(S1, fieldPaths, i + 1, Append(results, result))

ValidateFields(S, fieldPaths, i, results) ==
  IF i > Len(fieldPaths) THEN [st |-> S, results |-> results]
  ELSE FieldValidated(performValidation(S, fieldPaths[i]), fieldPaths, i, results)

\* the validate calls without a path waiting for the promises of their fields
Forms(S) == {r \in S.runs : r.path = NULL}

\* what performValidation() answers once the fields are validated: A is the store
\* and the results after the map, S the store before it
FormAnswer(S, A) ==
  LET formResult == FormResult(A.results)
      form == [path |-> NULL, ticket |-> Cardinality(Forms(S)) + 1, value |-> UNDEF,
               results |-> <<>>, syncOk |-> TRUE, syncMessage |-> NULL,
               tasks |-> <<>>, parts |-> A.results,
               detached |-> FALSE, superseded |-> FALSE, supersededAsync |-> FALSE,
               inputChanged |-> FALSE]
  IN IF \E k \in 1..Len(A.results) : A.results[k].kind = "promise"
     THEN Returned([A.st EXCEPT !.runs = @ \cup {form}], "promise",
                   [ok |-> TRUE, message |-> UNDEF])
     ELSE Returned(IF formResult.ok THEN A.st ELSE emitEvent(A.st, "validate"),
                   "sync", formResult)

\* performValidation() for the form: a promise when the result of a field is one
performValidationAll(S) == FormAnswer(S, ValidateFields(S, S.fieldOrder, 1, <<>>))

\* the end of store.validate(): subscribers are notified unless a promise is returned
ValidateReturn(S1) ==
  IF S1.out.ret.kind = "promise" THEN S1
  ELSE notifySubscribers(S1, S1.subscribers, 1)

\* store.validate()
validateAll(S) == ValidateReturn(performValidationAll(S))

\* the promise of a field's validation resolved: the forms waiting for it have its result
Feed(S, run) ==
  [S EXCEPT !.runs =
     {IF r.path # NULL THEN r
      ELSE [r EXCEPT !.parts =
              [k \in 1..Len(r.parts) |->
                 IF r.parts[k].kind = "promise" /\ r.parts[k].path = run.path
                    /\ r.parts[k].ticket = run.ticket
                 THEN [r.parts[k] EXCEPT !.kind = "resolved", !.ok = S.out.ret.ok,
                                         !.message = S.out.ret.message]
                 ELSE r.parts[k]]] : r \in @}]

\* the continuation Promise.all(results).then(...) of a validate call without a path
settleForm(S, form) ==
  LET formOk == FormResult(form.parts)
      S1 == [S EXCEPT !.runs = @ \ {form}]
  IN Returned(IF formOk.ok THEN S1 ELSE emitEvent(S1, "validate"), "resolved", formOk)

\* addValidatorInternal: attach, and hand back the remover (path, Set, validator)
addValidatorInternal(S, path, validator) ==
  LET E == ensureValidatorEntry(S, path)
      id == E.fieldValidators[path]
      S1 == [E EXCEPT !.lists[id] = SetAdd(@, validator),
                      !.removers = @ \cup {[path |-> path, list |-> id,
                                            validator |-> validator]}]
  IN IF Has(S1, path) THEN [S1 EXCEPT !.fields[path].validators = id] ELSE S1

\* the remover addValidatorInternal returned
remover(S, r) ==
  LET S1 == [S EXCEPT !.lists[r.list] = SetDelete(@, r.validator)]
  IN IF S1.lists[r.list] # <<>> THEN S1
     ELSE LET S2 == [S1 EXCEPT !.fieldValidators = MapDelete(@, r.path)]
          IN IF Has(S2, r.path) THEN [S2 EXCEPT !.fields[r.path].validators = NoList]
             ELSE S2

-----------------------------------------------------------------------------
(* Plugin context.                                                         *)

\* A listener is a function with a name; called with an event it returns nothing or a
\* cleanup, and a cleanup either returns ("no") or throws the error named.
FreshListenerSet(S) ==
  CHOOSE i \in 1..(Cardinality(DOMAIN S.listenerSets) + 1) : i \notin DOMAIN S.listenerSets

\* pluginContext.on(event, cb), and the remover (event, Set, cb) handed back
on(S, event, listener) ==
  LET S1 == IF event \in DOMAIN S.eventListeners THEN S
            ELSE LET id == FreshListenerSet(S)
                 IN [S EXCEPT !.listenerSets = MapSet(@, id, <<>>),
                              !.eventListeners = MapSet(@, event, id)]
      set == S1.eventListeners[event]
  IN updateSimpleWriteFastPath(
       [S1 EXCEPT !.listenerSets[set] = SetAdd(@, listener),
                  !.totalEventListeners = @ + 1,
                  !.offs = @ \cup {[event |-> event, set |-> set, listener |-> listener]}])

\* the remover on returned
off(S, r) ==
  IF r.listener \notin SeqToSet(S.listenerSets[r.set]) THEN S
  ELSE LET S1 == [S EXCEPT !.listenerSets[r.set] = SetDelete(@, r.listener),
                           !.totalEventListeners = IF @ > 0 THEN @ - 1 ELSE 0]
           S2 == IF S1.listenerSets[r.set] = <<>>
                 THEN [S1 EXCEPT !.eventListeners = MapDelete(@, r.event)]
                 ELSE S1
       IN updateSimpleWriteFastPath(S2)

\* pluginContext.addMiddleware(mw)
addMiddleware(S, mw) ==
  updateSimpleWriteFastPath([S EXCEPT !.middlewareBag = Append(@, mw),
                                      !.hasMiddleware = TRUE])

\* a Subscription entry that is in neither Set any more, as the store leaves it
Unreachable(S, id) ==
  /\ id \notin SeqToSet(S.subscribers)
  /\ \A p \in DOMAIN S.subscribersByPath : id \notin SeqToSet(S.subscribersByPath[p])

\* the values !v is true of
Falsy == {UNDEF, NULL, "0"}

\* destroy's loop: the last cleanup is popped and called, and what it throws is
\* kept when nothing truthy was kept before
RECURSIVE RunCleanups(_, _)
RunCleanups(S, firstError) ==
  IF Len(S.pluginCleanups) = 0 THEN [st |-> S, firstError |-> firstError]
  ELSE LET cleanup == S.pluginCleanups[Len(S.pluginCleanups)]
           S1 == [S EXCEPT !.pluginCleanups = SubSeq(@, 1, Len(@) - 1),
                           !.out.cleaned = Append(@, cleanup)]
       IN RunCleanups(S1, IF cleanup.throws # Returns /\ firstError \in Falsy
                          THEN cleanup.throws ELSE firstError)

\* the error destroy throws: the one kept, when it is truthy
Rethrown(S, firstError) == IF firstError \in Falsy THEN NotThrown ELSE firstError

\* destroy(): the cleanups, then the collections are cleared (the Map fields, whose
\* order of keys fieldOrder is; the lookup object of the records is left), then the
\* first error is thrown
destroy(S) ==
  LET A == RunCleanups(S, UNDEF)
  IN [A.st EXCEPT !.eventListeners = EmptyMap,
                  !.specificWatchers = EmptyMap,
                  !.subscribers = <<>>,
                  !.subscribersByPath = EmptyMap,
                  !.fieldValidators = EmptyMap,
                  !.fieldOrder = <<>>,
                  !.validationTracker = EmptyMap,
                  !.out.thrown = Rethrown(A.st, A.firstError)]

\* Garbage: validator Sets and listener Sets nothing refers to any more are freed,
\* removers of on that can remove nothing any more are dropped, and of a Subscription
\* entry the store cannot reach any more only the callback (which its caller may
\* still hold) is kept.
Collect(S) ==
  LET live == {S.fieldValidators[p] : p \in DOMAIN S.fieldValidators}
              \cup {S.fields[p].validators : p \in DOMAIN S.fields}
              \cup {r.list : r \in S.removers}
      mapped == {S.eventListeners[e] : e \in DOMAIN S.eventListeners}
      \* a remover of on stays of use while its Set is in the Map or holds its listener
      useful == {r \in S.offs : r.set \in mapped
                                \/ r.listener \in SeqToSet(S.listenerSets[r.set])}
      reachable == mapped \cup {r.set : r \in useful}
  IN [S EXCEPT !.lists = [i \in DOMAIN S.lists \cap live |-> S.lists[i]],
               !.offs = useful,
               !.listenerSets = [i \in DOMAIN S.listenerSets \cap reachable |->
                                   S.listenerSets[i]],
               !.subs = [id \in DOMAIN S.subs |->
                           IF Unreachable(S, id)
                           THEN [selector |-> [get |-> "none", path |-> UNDEF],
                                 callback |-> S.subs[id].callback,
                                 lastValue |-> UNDEF, dependencies |-> {}, seen |-> UNDEF]
                           ELSE S.subs[id]]]

-----------------------------------------------------------------------------
(* Actions: one call of one store operation, or one microtask.             *)

\* a validation in flight whose field's value a setControlledValue or read changed
\* (history kept for the properties: the code keeps no such mark)
NoteInput(S, T) ==
  [T EXCEPT !.runs = {IF r \in S.runs /\ T.out.op \in {"setControlledValue", "read"}
                         /\ getValue(T, r.path) # getValue(S, r.path)
                      THEN [r EXCEPT !.inputChanged = TRUE] ELSE r : r \in @}]

\* subscriptions whose selector is away from the value their callback saw last
Behind(S) ==
  {id \in SeqToSet(S.subscribers) :
     ~ObjectIs(S.subs[id].seen, RunSelector(S, S.subs[id].selector).value)}

\* the batch a flush delivered is forgotten by the operation after the flush
Moved(T) == ((IF out.op = "flush" THEN {} ELSE moved) \cup Behind(T)) \cap SeqToSet(T.subscribers)

\* stage 1: a path was registered anew as controlled, initialValue v1 (given or not);
\* stage 2: the next call set it to a value other than v1;
\* stage 3: the call after that set it back to v1.
Track(T) ==
  IF ~scenario.on THEN scenario
  ELSE IF T.out.op = "register" /\ ~T.out.existed
          /\ T.fields[T.out.path].mode = "controlled"
  THEN [on |-> TRUE, stage |-> 1, v1 |-> T.out.arg]
  ELSE IF T.out.op = "setControlledValue" /\ scenario.stage = 1 /\ T.out.arg # scenario.v1
  THEN [scenario EXCEPT !.stage = 2]
  ELSE IF T.out.op = "setControlledValue" /\ scenario.stage = 2 /\ T.out.arg = scenario.v1
  THEN [scenario EXCEPT !.stage = 3]
  ELSE [on |-> TRUE, stage |-> 0, v1 |-> UNDEF]

\* The unregister functions are followed only where a specification asks for it:
\* each register call returns a new one (named by the number of the call), and the
\* call of one is an unregister whose argument names it.
NoHandles == [on |-> FALSE, made |-> 0, called |-> {}]

HandleNames == <<"u1", "u2", "u3", "u4">>

Handled(T) ==
  IF ~handles.on THEN handles
  ELSE IF T.out.op = "register" THEN [handles EXCEPT !.made = @ + 1]
  ELSE IF T.out.op = "unregister" THEN [handles EXCEPT !.called = @ \cup {T.out.arg}]
  ELSE handles

\* one call on the store, with what the second store becomes
Run(T, U) ==
  /\ Len(T.watchQueue) <= MaxQueue
  /\ Len(T.pluginCleanups) <= MaxCleanups
  /\ Install(Collect(NoteInput(Bundle, T)))
  /\ moved' = Moved(T)
  /\ scenario' = Track(T)
  /\ twin' = U
  /\ tree' = tree
  /\ handles' = Handled(T)

Do(T) == Run(T, twin)

Register(path, opts) ==
  /\ (opts.validate # UNDEF /\ path \notin DOMAIN fieldValidators) => FreeLists(Bundle) # {}
  /\ LET T == register(Begin(Bundle, "register", path, opts.initialValue), path, opts)
     IN Do([T EXCEPT !.cleanups = IF Applied(T) THEN @ \cup {path} ELSE @])

Unregister(path) ==
  /\ path \in cleanups
  /\ Do(unregister(Begin(Bundle, "unregister", path, UNDEF), path))

MarkTouched(path) == Do(markTouched(Begin(Bundle, "markTouched", path, UNDEF), path))

MarkDirty(path) == Do(markDirty(Begin(Bundle, "markDirty", path, UNDEF), path))

SetControlledValue(path, value) ==
  Do(setControlledValue(Begin(Bundle, "setControlledValue", path, value), path, value))

Read(getDomValue) == Do(read(Begin(Bundle, "read", UNDEF, UNDEF), getDomValue))

Validate(path) ==
  LET T == validate(Begin(Bundle, "validate", path, UNDEF), path)
  IN /\ Pending(T, path) <= MaxTicket
     /\ Do(T)

Settle(run) ==
  /\ run \in runs
  /\ Do(settle(Begin(Bundle, "settle", run.path, UNDEF), run))

\* validate() without a path
\* the step to the store T, while the tickets and the waiting forms are within bounds
BoundedStep(T) ==
  /\ \A path \in DOMAIN T.validationTracker : Pending(T, path) <= MaxTicket
  /\ Cardinality(Forms(T)) <= MaxForms
  /\ Do(T)

ValidateAll == BoundedStep(validateAll(Begin(Bundle, "validateAll", UNDEF, UNDEF)))

\* a field's promise resolves, and with it the place it has in the waiting forms
SettleField(run) ==
  /\ run \in runs /\ run.path # NULL
  /\ Do(Feed(settle(Begin(Bundle, "settle", run.path, UNDEF), run), run))

\* every promise a form waited for has resolved: the form resolves
SettleForm(form) ==
  /\ form \in Forms(Bundle)
  /\ \A k \in 1..Len(form.parts) : form.parts[k].kind # "promise"
  /\ Do(settleForm(Begin(Bundle, "settleForm", UNDEF, UNDEF), form))

AddValidator(path, validator) ==
  LET T == addValidatorInternal(Begin(Bundle, "addValidator", path, validator), path, validator)
  IN /\ path \notin DOMAIN fieldValidators => FreeLists(Bundle) # {}
     /\ Cardinality(T.removers) <= MaxRemovers
     /\ Do(T)

Remover(r) ==
  /\ r \in removers
  /\ Do(remover(Begin(Bundle, "remover", r.path, r.validator), r))

\* subscribe with a callback that only takes what it is given
Subscribe(selector) ==
  /\ Cardinality(DOMAIN subs) < MaxSubs
  /\ Do(subscribe(Begin(Bundle, "subscribe", UNDEF, UNDEF), selector, NoCallback))

\* subscribe with a callback that calls back into the store
SubscribeCalling(selector, callback) ==
  /\ Cardinality(DOMAIN subs) < MaxCallingSubs
  /\ Do(subscribe(Begin(Bundle, "subscribe", UNDEF, UNDEF), selector, callback))

Unsubscribe(id) ==
  /\ id \in DOMAIN subs
  /\ Do(unsubscribe(Begin(Bundle, "unsubscribe", UNDEF, UNDEF), id))

Watch(pattern) ==
  /\ includes(pattern, "*") \/ Cardinality(DOMAIN watchers) < MaxWatchers
  /\ Do(watch(Begin(Bundle, "watch", pattern, UNDEF), pattern))

Unwatch(id) ==
  /\ id \in DOMAIN watchers
  /\ Do(unwatch(Begin(Bundle, "unwatch", UNDEF, UNDEF), id))

On(event, listener) ==
  /\ totalEventListeners < MaxListeners
  /\ Do(on(Begin(Bundle, "on", UNDEF, event), event, listener))

Off(r) ==
  /\ r \in offs
  /\ Do(off(Begin(Bundle, "off", UNDEF, r.event), r))

AddMiddleware(mw) ==
  /\ Len(middlewareBag) < MaxMiddleware
  /\ Do(addMiddleware(Begin(Bundle, "addMiddleware", UNDEF, mw.kind), mw))

Destroy == Do(destroy(Begin(Bundle, "destroy", UNDEF, UNDEF)))

\* the microtask queued by queueMicrotask(flushNotifications)
Flush ==
  /\ microtasks > 0
  /\ Do(flushNotifications([Begin(Bundle, "flush", UNDEF, UNDEF) EXCEPT !.microtasks = @ - 1]))

-----------------------------------------------------------------------------
(* Specifications.                                                         *)

\* createFormStore() without options
InitStore ==
  /\ fields = EmptyMap
  /\ fieldOrder = <<>>
  /\ fieldValidators = EmptyMap
  /\ lists = EmptyMap
  /\ removers = {}
  /\ cleanups = {}
  /\ validationTracker = EmptyMap
  /\ runs = {}
  /\ subs = EmptyMap
  /\ subscribers = <<>>
  /\ subscribersByPath = EmptyMap
  /\ subscriberCount = 0
  /\ watchers = EmptyMap
  /\ specificWatchers = EmptyMap
  /\ totalSpecificWatchers = 0
  /\ totalEventListeners = 0
  /\ eventListeners = EmptyMap
  /\ listenerSets = EmptyMap
  /\ offs = {}
  /\ pluginCleanups = <<>>
  /\ middlewareBag = <<>>
  /\ hasMiddleware = FALSE
  /\ simpleWriteFastPathEnabled = TRUE
  /\ isNotificationScheduled = FALSE
  /\ hasChangedInBatch = FALSE
  /\ changedPathsInBatch = <<>>
  /\ watchQueue = <<>>
  /\ microtasks = 0
  /\ out = NoOut("createFormStore", UNDEF, UNDEF, FALSE)
  /\ moved = {}

\* no second store is followed
NoTwin == [fields |-> EmptyMap]

\* the bundle createFormStore() leaves, before any call
NewStore ==
  [fields |-> EmptyMap, fieldOrder |-> <<>>, fieldValidators |-> EmptyMap,
   lists |-> EmptyMap, removers |-> {}, cleanups |-> {}, validationTracker |-> EmptyMap,
   runs |-> {}, subs |-> EmptyMap, subscribers |-> <<>>, subscribersByPath |-> EmptyMap,
   subscriberCount |-> 0, watchers |-> EmptyMap, specificWatchers |-> EmptyMap,
   totalSpecificWatchers |-> 0, totalEventListeners |-> 0, eventListeners |-> EmptyMap,
   listenerSets |-> EmptyMap, offs |-> {}, pluginCleanups |-> <<>>,
   middlewareBag |-> <<>>, hasMiddleware |-> FALSE, simpleWriteFastPathEnabled |-> TRUE,
   isNotificationScheduled |-> FALSE, hasChangedInBatch |-> FALSE,
   changedPathsInBatch |-> <<>>, watchQueue |-> <<>>, microtasks |-> 0,
   out |-> NoOut("createFormStore", UNDEF, UNDEF, FALSE)]

\* createFormStore({middleware: mw})
NewStoreWith(mw) ==
  updateSimpleWriteFastPath([NewStore EXCEPT !.middlewareBag = mw,
                                             !.hasMiddleware = Len(mw) > 0])

Init ==
  /\ InitStore /\ scenario = [on |-> FALSE, stage |-> 0, v1 |-> UNDEF] /\ twin = NoTwin
  /\ tree = NoTree /\ handles = NoHandles

Options(modes, initialValues, validators) ==
  [mode : modes, initialValue : initialValues, validate : validators]

Getter(path) == {[get |-> g, path |-> path] : g \in {"touched", "error", "value"}}

\* One field "p" with values a and b and a synchronous validator, subscriptions on
\* its touched flag, its error and its value, callbacks that do nothing: the store
\* under top-level calls.
Next ==
  \/ \E o \in Options({UNDEF, "controlled", "uncontrolled"}, {UNDEF, "a"}, {UNDEF, "vS"}) :
       Register("p", o)
  \/ Unregister("p")
  \/ MarkTouched("p")
  \/ MarkDirty("p")
  \/ \E v \in {"a", "b"} : SetControlledValue("p", v)
  \/ \E v \in {"a", "b"} : Read([x \in {"p"} |-> v])
  \/ Validate("p")
  \/ \E s \in Getter("p") : Subscribe(s)
  \/ \E id \in 1..MaxSubs : Unsubscribe(id)
  \/ Flush

Spec == Init /\ [][Next]_vars

-----------------------------------------------------------------------------
(* Properties.                                                             *)

\* no flush is queued and no validation is waiting for a promise
Quiet == microtasks = 0 /\ runs = {}

Live == SeqToSet(subscribers)

Current(id) == RunSelector(Bundle, subs[id].selector).value

\* C1: once the queued flush has run and no asynchronous validation is pending,
\* the value last delivered to every live subscription is the value of its selector
\* on the current state of the store.
C1_NeverMissAnUpdate == Quiet => \A id \in Live : ObjectIs(subs[id].seen, Current(id))

\* the calls an operation made to the callback of one subscription, in order
CallsTo(calls, id) == SelectSeq(calls, LAMBDA c : c[1] = id)

\* the value a selector has on the state a step leaves
Final(selector) == RunSelector([fields |-> fields'], selector).value

\* C6: a flush invokes the callback of a subscription at most once, with the value
\* of its selector on the state after the last mutation of the batch, and not at
\* all when that value is Object.is-equal to the value delivered last, whatever
\* the intermediate states were.
C6_FlushDeliversFinalValueOnly ==
  [][out'.op = "flush" =>
       \A id \in Live :
         LET calls == CallsTo(out'.cb, id)
         IN \/ calls = <<>>
            \/ /\ calls = << <<id, Final(subs[id].selector)>> >>
               /\ ~ObjectIs(Final(subs[id].selector), subs[id].seen)]_vars

\* a flush ran for a batch in which the selector of a live subscription had left
\* the value delivered last and came back to it: no callback was invoked
C6_Witness ==
  /\ out.op = "flush" /\ out.cb = <<>>
  /\ \E id \in Live \cap moved : ObjectIs(subs[id].seen, Current(id))

\* the value delivered to a subscription immediately before the i-th call of a step
Previous(calls, i) ==
  LET id == calls[i][1]
      earlier == CallsTo(SubSeq(calls, 1, i - 1), id)
  IN IF earlier # <<>> THEN earlier[Len(earlier)][2] ELSE subs[id].seen

NextBatch ==
  \/ Register("p", [mode |-> "controlled", initialValue |-> "a", validate |-> UNDEF])
  \/ Unregister("p")
  \/ MarkTouched("p")
  \/ MarkDirty("p")
  \/ \E v \in {"a", "b"} : SetControlledValue("p", v)
  \/ \E v \in {"a", "b"} : Read([x \in {"p"} |-> v])
  \/ Subscribe([get |-> "value", path |-> "p"])
  \/ \E id \in 1..MaxSubs : Unsubscribe(id)
  \/ Watch("p")
  \/ \E id \in 1..MaxWatchers : Unwatch(id)
  \/ Flush

SpecBatch == Init /\ [][NextBatch]_vars

MutationOps == {"register", "unregister", "markTouched", "markDirty", "setControlledValue", "read"}

NextValidate ==
  \/ \E o \in Options({UNDEF, "controlled"}, {"a"}, {UNDEF, "vA"}) : Register("p", o)
  \/ Unregister("p")
  \/ \E v \in {"a", "b"} : SetControlledValue("p", v)
  \/ \E v \in {"a", "b"} : Read([x \in {"p"} |-> v])
  \/ Validate("p")
  \/ \E r \in runs : Settle(r)
  \/ Subscribe([get |-> "error", path |-> "p"])
  \/ Flush

SpecValidate == Init /\ [][NextValidate]_vars

\* C2: when a validation resolves after a later validate call of its path started
\* asynchronous validators of its own, its resolution changes no field, invokes no
\* subscriber, emits no validate event and resolves its promise with a result;
\* when the validation of the latest call resolves for a field still registered,
\* the error of the field is the outcome of that call and a validate event is
\* emitted, whichever of the two resolved first.
C2_TicketDiscardsEarlierRun ==
  [][out'.op = "settle" =>
       /\ out'.settled.supersededAsync =>
             /\ fields' = fields
             /\ out'.cb = <<>>
             /\ "validate" \notin SeqToSet(out'.ev)
             /\ out'.ret = [kind |-> "resolved", ok |-> TRUE, message |-> UNDEF]
       /\ (~out'.settled.superseded /\ ~out'.settled.detached) =>
             /\ getError(Bundle', out'.path) = out'.settled.error
             /\ "validate" \in SeqToSet(out'.ev)]_vars

\* the earlier of two asynchronous validations resolved last, with an outcome
\* other than the one the later call left in the field
C2_Witness ==
  /\ out.op = "settle" /\ out.settled.supersededAsync /\ runs = {}
  /\ Has(Bundle, "p") /\ getError(Bundle, "p") # out.settled.error

\* One controlled field whose validators are attached through addValidator and
\* taken away again by the removers it returned.
NextAttach ==
  \/ Register("p", [mode |-> "controlled", initialValue |-> "a", validate |-> UNDEF])
  \/ \E v \in {"vS", "vA"} : AddValidator("p", v)
  \/ \E r \in removers : Remover(r)
  \/ \E v \in {"a", "b"} : SetControlledValue("p", v)
  \/ Validate("p")
  \/ \E r \in runs : Settle(r)

SpecAttach == Init /\ [][NextAttach]_vars

\* C3: the result of a validation that any later validate call of its path
\* superseded before it resolved (a call that answered synchronously or found no
\* validator included) is discarded: its resolution leaves the error of the field
\* as the later call set it.
C3_SupersededResultDiscarded ==
  [][(out'.op = "settle" /\ out'.settled.superseded) =>
       getError(Bundle', out'.path) = getError(Bundle, out'.path)]_vars

\* C4: the result of a validation whose field changed value (setControlledValue,
\* or read for an uncontrolled field) after it started and before it resolved is
\* not written to the error of the field.
C4_NewerInputStopsValidation ==
  [][(out'.op = "settle" /\ out'.settled.inputChanged) =>
       getError(Bundle', out'.path) = getError(Bundle, out'.path)]_vars

\* One controlled field and subscriptions on its value whose callbacks may call the
\* unsubscribe function of another subscription.
NextReentrant ==
  \/ Register("p", [mode |-> "controlled", initialValue |-> "a", validate |-> UNDEF])
  \/ \E v \in {"a", "b"} : SetControlledValue("p", v)
  \/ \E c \in {NoCallback} \cup {[do |-> "unsubscribe", arg |-> i] : i \in 1..MaxCallingSubs} :
       SubscribeCalling([get |-> "value", path |-> "p"], c)
  \/ \E id \in 1..MaxCallingSubs : Unsubscribe(id)
  \/ Flush

SpecReentrant == Init /\ [][NextReentrant]_vars

\* C8: once the unsubscribe function of a subscription has been called, no step
\* invokes its callback (neither a later step nor the rest of the step in which
\* unsubscribe was called, as from the callback of another subscription during a
\* flush), and the subscription is under no path of the path index.
C8_UnsubscribeIsFinal ==
  [][/\ \A i \in 1..Len(out'.cb) :
          LET id == out'.cb[i][1]
          IN /\ id \in DOMAIN subs => id \in Live
             /\ \A u \in 1..Len(out'.unsub) :
                  out'.unsub[u][2] = id => i <= out'.unsub[u][1]
     /\ \A id \in DOMAIN subs' \ SeqToSet(subscribers') :
          \A p \in DOMAIN subscribersByPath' : id \notin SeqToSet(subscribersByPath'[p])]_vars

\* the values a caller may hand to register and setControlledValue
Values == {UNDEF, NULL, "a", "b"}

\* One field registered, registered again and written with every value, null and
\* undefined included, with the progress of register / set / set back followed.
InitDirty ==
  /\ InitStore /\ scenario = [on |-> TRUE, stage |-> 0, v1 |-> UNDEF] /\ twin = NoTwin
  /\ tree = NoTree /\ handles = NoHandles

NextDirty ==
  \/ \E o \in Options({UNDEF, "controlled", "uncontrolled"}, Values, {UNDEF, "vS"}) :
       Register("p", o)
  \/ Unregister("p")
  \/ \E v \in Values : SetControlledValue("p", v)
  \/ MarkTouched("p")
  \/ Validate("p")

SpecDirty == InitDirty /\ [][NextDirty]_vars

\* C9: after register(p, {mode: "controlled", initialValue: v1}) of a new path and
\* setControlledValue(p, v2) with v2 not Object.is-equal to v1, getDirty(p) is true;
\* after a further setControlledValue(p, v1), getDirty(p) is false; for all values,
\* null and undefined included.
C9_DirtyRoundTrip ==
  /\ scenario.stage = 2 => getDirty(Bundle, out.path)
  /\ scenario.stage = 3 => ~getDirty(Bundle, out.path)

\* C10: register on a path already registered keeps one record under the path with
\* its touched flag, its error and its attached validators, and when an
\* initialValue is supplied leaves dirty false and initialValue, controlledValue
\* and uncontrolledValue all equal to the supplied value, whatever the mode.
C10_ReRegisterMerges ==
  [][(out'.op = "register" /\ out'.existed) =>
       LET p == out'.path
       IN /\ Has(Bundle', p)
          /\ Len(SelectSeq(fieldOrder', LAMBDA q : q = p)) = 1
          /\ fields'[p].touched = fields[p].touched
          /\ fields'[p].error = fields[p].error
          /\ SeqToSet(ValidatorsOf(Bundle, p)) \subseteq SeqToSet(ValidatorsOf(Bundle', p))
          /\ out'.arg # UNDEF =>
                /\ ~fields'[p].dirty
                /\ fields'[p].initialValue = out'.arg
                /\ fields'[p].controlledValue = out'.arg
                /\ fields'[p].uncontrolledValue = out'.arg]_vars

\* One field registered and unregistered again and again, validators attached to
\* its path by register and by addValidator, and a subscription on its touched flag.
NextUnregister ==
  \/ \E o \in Options({UNDEF}, {"a"}, {UNDEF, "vS"}) : Register("p", o)
  \/ Unregister("p")
  \/ AddValidator("p", "vS")
  \/ MarkTouched("p")
  \/ Validate("p")
  \/ Subscribe([get |-> "touched", path |-> "p"])
  \/ Flush

SpecUnregister == Init /\ [][NextUnregister]_vars

InitTwin ==
  /\ InitStore /\ tree = NoTree /\ handles = NoHandles
  /\ scenario = [on |-> FALSE, stage |-> 0, v1 |-> UNDEF]
  /\ twin \in {NewStoreWith(<<[id |-> 1, kind |-> "pass"]>>),
               subscribe(NewStore, [get |-> "value", path |-> "p"], NoCallback)}

Both(T, U) == Run(T, Collect(U))

TwinValues == {UNDEF, NULL, "a", "b"}

NextTwin ==
  \/ \E o \in Options({UNDEF, "controlled", "uncontrolled"}, TwinValues, {UNDEF}) :
       Both(register(Begin(Bundle, "register", "p", o.initialValue), "p", o),
            register(Begin(twin, "register", "p", o.initialValue), "p", o))
  \/ \E v \in TwinValues :
       Both(setControlledValue(Begin(Bundle, "setControlledValue", "p", v), "p", v),
            setControlledValue(Begin(twin, "setControlledValue", "p", v), "p", v))
  \/ Both(markDirty(Begin(Bundle, "markDirty", "p", UNDEF), "p"),
          markDirty(Begin(twin, "markDirty", "p", UNDEF), "p"))
  \/ \E v \in {"a", "b"} :
       Both(read(Begin(Bundle, "read", UNDEF, UNDEF), [x \in {"p"} |-> v]),
            read(Begin(twin, "read", UNDEF, UNDEF), [x \in {"p"} |-> v]))

SpecTwin == InitTwin /\ [][NextTwin]_vars

\* C12: after every call, the store that takes the fast path and the store that
\* takes the full runMutation path hold the same fields, each with the same mode,
\* controlled value and dirty flag.
C12_FastPathEqualsSlowPath ==
  twin # NoTwin =>
    /\ simpleWriteFastPathEnabled /\ ~twin.simpleWriteFastPathEnabled
    /\ DOMAIN fields = DOMAIN twin.fields
    /\ \A p \in DOMAIN fields :
         /\ fields[p].mode = twin.fields[p].mode
         /\ fields[p].controlledValue = twin.fields[p].controlledValue
         /\ fields[p].dirty = twin.fields[p].dirty

\* a setControlledValue that cleared the dirty flag went through no middleware step
\* in the first store and through the apply step, with a commit, in the second
C12_Witness ==
  /\ twin # NoTwin /\ out.op = "setControlledValue"
  /\ out.mw = <<>> /\ out.ev = <<>>
  /\ Applied(twin) /\ "commit" \in SeqToSet(twin.out.ev)
  /\ Has(Bundle, "p") /\ fields["p"].controlledValue = "a" /\ ~fields["p"].dirty

Listener(name, returns) == [name |-> name, returns |-> returns]

Middleware(id, kind) == [id |-> id, kind |-> kind]

\* A plugin at work: listeners put on the commit event and removed, middleware
\* added, subscriptions and watchers coming and going, and a field to write.
NextPlugin ==
  \/ On("commit", Listener("f", "nothing"))
  \/ \E r \in offs : Off(r)
  \/ AddMiddleware(Middleware(Len(middlewareBag) + 1, "pass"))
  \/ Subscribe([get |-> "value", path |-> "p"])
  \/ \E id \in 1..MaxSubs : Unsubscribe(id)
  \/ Watch("p")
  \/ \E id \in 1..MaxWatchers : Unwatch(id)
  \/ Register("p", [mode |-> "controlled", initialValue |-> "a", validate |-> UNDEF])
  \/ \E v \in {"a", "b"} : SetControlledValue("p", v)
  \/ Flush

SpecPlugin == Init /\ [][NextPlugin]_vars

\* the event listeners registered: the members of the Sets in the Map
Registered ==
  UNION {SeqToSet(listenerSets[eventListeners[e]]) : e \in DOMAIN eventListeners}

\* C13: the fast-path flag is true exactly when the store has no middleware, no
\* live subscription, no registered watcher and no registered event listener.
C13_FastPathFlag ==
  simpleWriteFastPathEnabled <=>
    /\ middlewareBag = <<>>
    /\ subscribers = <<>>
    /\ specificWatchers = EmptyMap
    /\ Registered = {}

\* createFormStore({middleware: mw}): the variables of a store created with options
Created(B) ==
  /\ fields = B.fields
  /\ fieldOrder = B.fieldOrder
  /\ fieldValidators = B.fieldValidators
  /\ lists = B.lists
  /\ removers = B.removers
  /\ cleanups = B.cleanups
  /\ validationTracker = B.validationTracker
  /\ runs = B.runs
  /\ subs = B.subs
  /\ subscribers = B.subscribers
  /\ subscribersByPath = B.subscribersByPath
  /\ subscriberCount = B.subscriberCount
  /\ watchers = B.watchers
  /\ specificWatchers = B.specificWatchers
  /\ totalSpecificWatchers = B.totalSpecificWatchers
  /\ totalEventListeners = B.totalEventListeners
  /\ eventListeners = B.eventListeners
  /\ listenerSets = B.listenerSets
  /\ offs = B.offs
  /\ pluginCleanups = B.pluginCleanups
  /\ middlewareBag = B.middlewareBag
  /\ hasMiddleware = B.hasMiddleware
  /\ simpleWriteFastPathEnabled = B.simpleWriteFastPathEnabled
  /\ isNotificationScheduled = B.isNotificationScheduled
  /\ hasChangedInBatch = B.hasChangedInBatch
  /\ changedPathsInBatch = B.changedPathsInBatch
  /\ watchQueue = B.watchQueue
  /\ microtasks = B.microtasks
  /\ out = B.out
  /\ moved = {}
  /\ scenario = [on |-> FALSE, stage |-> 0, v1 |-> UNDEF]
  /\ twin = NoTwin
  /\ tree = NoTree
  /\ handles = NoHandles

\* Middleware lists given at creation and grown by addMiddleware, each middleware
\* numbered in the order of the list, around the mutations of one field.
InitChain ==
  \E mw \in {<<>>, <<Middleware(1, "pass")>>, <<Middleware(1, "transform")>>} :
    Created(NewStoreWith(mw))

NextChain ==
  \/ \E k \in {"pass", "transform", "veto"} :
       AddMiddleware(Middleware(Len(middlewareBag) + 1, k))
  \/ Register("p", [mode |-> UNDEF, initialValue |-> "a", validate |-> UNDEF])
  \/ Unregister("p")
  \/ MarkTouched("p")
  \/ MarkDirty("p")
  \/ \E v \in {"a", "b"} : SetControlledValue("p", v)

SpecChain == InitChain /\ [][NextChain]_vars

\* the middleware up to the first that does not call next, all of them when each does
Entered(mw) ==
  LET vetoes == {i \in 1..Len(mw) : mw[i].kind = "veto"}
  IN IF vetoes = {} THEN Len(mw) ELSE CHOOSE i \in vetoes : \A j \in vetoes : i <= j

\* the steps of one mutation through the list m1..mn: before-next of m1, m2, ...,
\* the apply step when every middleware called next, after-next of ..., m2, m1
ExpectedSteps(mw, type) ==
  LET n == Entered(mw)
      through == \A i \in 1..Len(mw) : mw[i].kind # "veto"
      back == IF through THEN n ELSE n - 1
  IN [i \in 1..n |-> MiddlewareStep("before", i, type)]
     \o (IF through THEN <<MiddlewareStep("apply", 0, type)>> ELSE <<>>)
     \o [j \in 1..back |-> MiddlewareStep("after", back + 1 - j, type)]

\* C17: with the middleware m1..mn numbered in the order they were given (those of
\* options.middleware, then those of addMiddleware), register, unregister,
\* markTouched and markDirty, and setControlledValue when it reaches runMutation,
\* run before-next of m1..mn in that order, the apply step once, and after-next of
\* mn..m1; a middleware that does not call next ends the way in there; with no
\* middleware the apply step is the only step.
C17_MiddlewareOrder ==
  /\ \A i \in 1..Len(middlewareBag) : middlewareBag[i].id = i
  /\ out.op \in {"register", "unregister", "markTouched", "markDirty"} =>
       out.mw = ExpectedSteps(middlewareBag, out.op)
  /\ out.op = "setControlledValue" =>
       out.mw \in {<<>>, ExpectedSteps(middlewareBag, out.op)}

\* a mutation went through two middleware, the one given first outermost
C17_Witness ==
  /\ out.op = "markTouched" /\ Len(middlewareBag) = 2
  /\ out.mw = <<MiddlewareStep("before", 1, "markTouched"),
                MiddlewareStep("before", 2, "markTouched"),
                MiddlewareStep("apply", 0, "markTouched"),
                MiddlewareStep("after", 2, "markTouched"),
                MiddlewareStep("after", 1, "markTouched")>>

\* A store with middleware that pass, replace the payload or stop the mutation, one
\* field, a subscriber on its value, a watcher on its path, values read from the DOM.
InitMiddleware ==
  \E mw \in {<<>>, <<Middleware(1, "pass")>>} : Created(NewStoreWith(mw))

NextMiddleware ==
  \/ \E k \in {"pass", "transform", "veto"} :
       AddMiddleware(Middleware(Len(middlewareBag) + 1, k))
  \/ \E m \in {UNDEF, "controlled"} :
       Register("p", [mode |-> m, initialValue |-> "a", validate |-> UNDEF])
  \/ Unregister("p")
  \/ MarkTouched("p")
  \/ MarkDirty("p")
  \/ \E v \in {"a", "b"} : SetControlledValue("p", v)
  \/ \E v \in {"a", "b"} : Read([x \in {"p"} |-> v])
  \/ Subscribe([get |-> "value", path |-> "p"])
  \/ Watch("p")
  \/ Flush

SpecMiddleware == InitMiddleware /\ [][NextMiddleware]_vars

\* the operations the middleware type names
MutationTypes ==
  {"register", "unregister", "markTouched", "markDirty", "setControlledValue", "read"}

\* the last operation entered the middleware and one of them did not call next
Vetoed == out.mw # <<>> /\ \A i \in 1..Len(out.mw) : out.mw[i].step # "apply"

\* C14: an operation whose mutation a middleware stopped by not calling next leaves
\* every field record as it was (value, dirty, touched, error and mode), queues
\* nothing for subscribers or watchers, schedules no flush and emits no commit.
C14_VetoChangesNothing ==
  [][Vetoed' /\ out'.op \in MutationTypes =>
       /\ fields' = fields
       /\ fieldOrder' = fieldOrder
       /\ changedPathsInBatch' = changedPathsInBatch
       /\ hasChangedInBatch' = hasChangedInBatch
       /\ watchQueue' = watchQueue
       /\ microtasks' = microtasks
       /\ isNotificationScheduled' = isNotificationScheduled
       /\ out'.ev = <<>>]_vars

\* the last operation went through the middleware to the apply step, and one of
\* the middleware replaced context.payload on the way
Transformed ==
  /\ Applied(Bundle)
  /\ \E i \in 1..Len(middlewareBag) : middlewareBag[i].kind = "transform"

\* C15: after setControlledValue(p, v) whose payload a middleware replaced by w
\* before calling next, the field holds w and its dirty flag is
\* !Object.is(w, initialValue).
C15_TransformedPayloadIsStored ==
  (out.op = "setControlledValue" /\ Transformed /\ Has(Bundle, out.path)) =>
    /\ getValue(Bundle, out.path) = Replacement
    /\ getDirty(Bundle, out.path) = ~ObjectIs(Replacement, fields[out.path].initialValue)

\* the number of times the outermost middleware was entered by the last operation
Entries ==
  Cardinality({i \in 1..Len(out.mw) :
                 out.mw[i].step = "before" /\ out.mw[i].who = middlewareBag[1].id})

\* the step is an operation that changes a field record; for setControlledValue,
\* one that changes the controlled value or the dirty flag of the record
StateChanging ==
  IF out'.op = "setControlledValue"
  THEN /\ out'.path \in DOMAIN fields /\ out'.path \in DOMAIN fields'
       /\ \/ fields'[out'.path].controlledValue # fields[out'.path].controlledValue
          \/ fields'[out'.path].dirty # fields[out'.path].dirty
  ELSE fields' # fields

\* C16: on a store with middleware, each register, unregister, markTouched,
\* markDirty, setControlledValue and read that changes a field record enters the
\* middleware exactly once, with a context whose type is the operation's name.
C16_EveryMutationThroughMiddleware ==
  [][(middlewareBag # <<>> /\ out'.op \in MutationTypes /\ StateChanging) =>
       /\ Entries' = 1
       /\ \A i \in 1..Len(out'.mw) : out'.mw[i].type = out'.op]_vars

\* A store whose plugin listens to the commit event, one field, a subscriber on its
\* value: every top-level operation on the field, and the flush.
InitCommit == Created(on(NewStore, "commit", Listener("f", "nothing")))

NextCommit ==
  \/ \E o \in Options({UNDEF, "controlled", "uncontrolled"}, {UNDEF, "a"}, {UNDEF}) :
       Register("p", o)
  \/ Unregister("p")
  \/ MarkTouched("p")
  \/ MarkDirty("p")
  \/ \E v \in {"a", "b"} : SetControlledValue("p", v)
  \/ \E v \in {"a", "b"} : Read([x \in {"p"} |-> v])
  \/ Subscribe([get |-> "value", path |-> "p"])
  \/ Flush

SpecCommit == InitCommit /\ [][NextCommit]_vars

\* what the getters of the field return
Observed ==
  [exists |-> Has(Bundle, "p"), value |-> getValue(Bundle, "p"),
   dirty |-> getDirty(Bundle, "p"), touched |-> getTouched(Bundle, "p")]

\* the commit events the listener heard during the last operation
Commits == Cardinality({i \in 1..Len(out.heard) : out.heard[i][2] = "commit"})

\* C18: an operation that changes what getValue, getDirty or getTouched return for
\* the field, or whether the field exists, emits exactly one commit event before
\* it returns (the flush is a later step); an operation that leaves the fields as
\* they were emits none.
C18_OneCommitPerChange ==
  [][out'.op \in MutationTypes =>
       /\ Observed' # Observed => Commits' = 1
       /\ (fields' = fields /\ fieldOrder' = fieldOrder) => Commits' = 0]_vars


\* what a cleanup may throw: nothing, an Error, or the number 0
Throws == {Returns, "e1", "0"}

\* the cleanup a plugin's setup returned
SetupCleanup(throws) == [from |-> "setup", throws |-> throws]

\* A store with at most one plugin whose setup returned a cleanup, listeners of
\* commit that return a cleanup each time they are called, a field with a
\* validator, a subscriber and a watcher, and destroy; no call follows destroy
\* but destroy.
InitDestroy ==
  \E c \in {<<>>} \cup {<<SetupCleanup(t)>> : t \in Throws} :
    Created([NewStore EXCEPT !.pluginCleanups = c])

NextDestroy ==
  \/ Destroy
  \/ /\ out.op # "destroy"
     /\ \/ \E t \in {"nothing", Returns, "e2", "0"} : On("commit", Listener("f", t))
        \/ Register("p", [mode |-> "controlled", initialValue |-> "a", validate |-> "vS"])
        \/ \E v \in {"a", "b"} : SetControlledValue("p", v)
        \/ Subscribe([get |-> "value", path |-> "p"])
        \/ Watch("p")
        \/ Flush

SpecDestroy == InitDestroy /\ [][NextDestroy]_vars

Reverse(s) == [i \in 1..Len(s) |-> s[Len(s) + 1 - i]]

\* what the first cleanup of the sequence that throws, throws
FirstThrown(ran) ==
  LET failed == {i \in 1..Len(ran) : ran[i].throws # Returns}
  IN IF failed = {} THEN NotThrown
     ELSE ran[CHOOSE i \in failed : \A j \in failed : i <= j].throws

\* C19: destroy runs each cleanup the plugin setups and the event listeners
\* returned once, the last registered first, whether or not one of them throws,
\* leaves fields, subscribers, watchers, validators and event listeners empty, and
\* throws what the first cleanup that threw has thrown (nothing when none threw).
C19_DestroyRunsEveryCleanup ==
  [][out'.op = "destroy" =>
       /\ out'.cleaned = Reverse(pluginCleanups)
       /\ pluginCleanups' = <<>>
       /\ fieldOrder' = <<>>
       /\ subscribers' = <<>> /\ subscribersByPath' = EmptyMap
       /\ specificWatchers' = EmptyMap
       /\ fieldValidators' = EmptyMap
       /\ eventListeners' = EmptyMap
       /\ out'.thrown = FirstThrown(out'.cleaned)]_vars

\* Two fields, one watcher on "p" that comes and goes, calls of watch with
\* wildcard patterns, writes and DOM reads of both fields, and the flush.
NextWatch ==
  \/ \E o \in Options({UNDEF, "controlled", "uncontrolled"}, {UNDEF, "a"}, {UNDEF}) :
       Register("p", o)
  \/ Register("q", [mode |-> UNDEF, initialValue |-> "a", validate |-> UNDEF])
  \/ \E path \in {"p", "q"}, v \in {"a", "b"} : SetControlledValue(path, v)
  \/ \E vp, vq \in {"a", "b"} :
       Read([x \in {"p", "q"} |-> IF x = "p" THEN vp ELSE vq])
  \/ \E pattern \in {"p", "*", "p.*"} : Watch(pattern)
  \/ \E id \in 1..MaxWatchers : Unwatch(id)
  \/ Flush

SpecWatch == Init /\ [][NextWatch]_vars

\* a watcher is registered on the path
Watched(path) == path \in DOMAIN specificWatchers

\* what notifyWatchers calls for the queued events, in the order of the queue
RECURSIVE Deliveries(_, _)
Deliveries(queue, i) ==
  IF i > Len(queue) THEN <<>>
  ELSE (IF Watched(queue[i].path)
        THEN [k \in 1..Len(specificWatchers[queue[i].path]) |->
                <<specificWatchers[queue[i].path][k], queue[i].path, queue[i].value>>]
        ELSE <<>>) \o Deliveries(queue, i + 1)

\* C20: while a watcher is registered on "p", each setControlledValue("p", v) that
\* changes what getValue or getDirty return for "p" and each read that changes the mirrored value of "p" queues
\* one event {path: "p", value}, behind those queued before; the flush calls the
\* watchers once per queued event, in the order of the queue, each with the path
\* it watches; watch with a pattern that contains '*' registers nothing.
C20_WatcherSeesEveryChange ==
  [][/\ (out'.op = "setControlledValue" /\ out'.path = "p" /\ Watched("p")
         /\ \/ getValue(Bundle, "p")' # getValue(Bundle, "p")
            \/ getDirty(Bundle, "p")' # getDirty(Bundle, "p")) =>
          watchQueue' = Append(watchQueue, [path |-> "p", value |-> out'.arg])
     /\ (out'.op = "read" /\ Watched("p") /\ Has(Bundle, "p")
         /\ fields'["p"].uncontrolledValue # fields["p"].uncontrolledValue) =>
          watchQueue' = Append(watchQueue, [path |-> "p",
                                            value |-> fields'["p"].uncontrolledValue])
     /\ out'.op = "flush" =>
          /\ out'.wcb = Deliveries(watchQueue, 1)
          /\ \A i \in 1..Len(out'.wcb) : watchers[out'.wcb[i][1]].pattern = out'.wcb[i][2]
          /\ watchQueue' = <<>>
     /\ (out'.op = "watch" /\ includes(out'.path, "*")) =>
          /\ watchers' = watchers
          /\ specificWatchers' = specificWatchers
          /\ totalSpecificWatchers' = totalSpecificWatchers]_vars

\* C21: in one flush, no subscriber callback is called after a watcher callback:
\* the subscribers of the batch are all served before the watch queue is.
C21_SubscribersBeforeWatchers ==
  out.op = "flush" =>
    \A i, j \in 1..Len(out.calls) :
      (out.calls[i][1] = "watcher" /\ out.calls[j][1] = "subscriber") => j < i

\* a flush that called a subscriber and then a watcher
C21_Witness ==
  /\ out.op = "flush"
  /\ \E i, j \in 1..Len(out.calls) :
       i < j /\ out.calls[i][1] = "subscriber" /\ out.calls[j][1] = "watcher"

\* The field, subscription and watcher of NextBatch, with validate calls.
NextQueue ==
  \/ NextBatch
  \/ Validate("p")

SpecQueue == Init /\ [][NextQueue]_vars

\* C22: register, unregister, markTouched, markDirty and validate put no event
\* on the watch queue, so that no watcher callback is invoked on their account:
\* only setControlledValue and read queue watch events.
C22_OnlyValueWritesQueueWatchEvents ==
  [][out'.op \in {"register", "unregister", "markTouched", "markDirty", "validate"} =>
       watchQueue' = watchQueue /\ out'.wcb = <<>>]_vars

\* One field, controlled or not, with synchronous validators given at
\* registration and attached and removed afterwards, written and read from the DOM.
NextSync ==
  \/ \E o \in Options({"controlled", "uncontrolled"}, {"a"}, {UNDEF, "vS"}) : Register("p", o)
  \/ \E v \in {"vT", "vU"} : AddValidator("p", v)
  \/ \E r \in removers : Remover(r)
  \/ \E v \in {"a", "b"} : SetControlledValue("p", v)
  \/ \E v \in {"a", "b"} : Read([x \in {"p"} |-> v])
  \/ Validate("p")

SpecSync == Init /\ [][NextSync]_vars

\* the validators of the list that reject the value, by their place in the list
Rejecting(tasks, value) == {i \in 1..Len(tasks) : ~ValidatorResult(tasks[i], value).ok}

\* the first of them
FirstRejecting(tasks, value) ==
  tasks[CHOOSE i \in Rejecting(tasks, value) : \A j \in Rejecting(tasks, value) : i <= j]

\* C23: validate("p") on a registered field whose validators all answer
\* synchronously calls each of them once, in the order they were attached, with
\* what getValue("p") returns, answers synchronously with the result of the first
\* that rejects the value ({ok: true} when none does), and leaves that result's
\* message (null when it has none or when none rejects) as the error of the field.
C23_SyncValidationFirstFailure ==
  [][(out'.op = "validate" /\ Has(Bundle, "p") /\ ValidatorsOf(Bundle, "p") # <<>>) =>
       LET tasks == ValidatorsOf(Bundle, "p")
           value == getValue(Bundle, "p")
       IN /\ out'.validated = [i \in 1..Len(tasks) |-> <<tasks[i], value>>]
          /\ out'.ret.kind = "sync"
          /\ IF Rejecting(tasks, value) = {}
             THEN /\ out'.ret.ok /\ out'.ret.message = UNDEF
                  /\ fields'["p"].error = NULL
             ELSE LET first == ValidatorResult(FirstRejecting(tasks, value), value)
                  IN /\ ~out'.ret.ok /\ out'.ret.message = first.message
                     /\ fields'["p"].error = Coalesce(first.message, NULL)]_vars

\* a validation whose first validator accepted the value, whose second rejected it
\* without a message and whose third rejected it with one: the error is null
C23_Witness ==
  /\ out.op = "validate" /\ Len(out.validated) = 3
  /\ ValidatorResult(out.validated[1][1], out.validated[1][2]).ok
  /\ out.validated[2][1] = "vU" /\ out.validated[3][1] = "vS"
  /\ ~out.ret.ok /\ out.ret.message = UNDEF
  /\ getError(Bundle, "p") = NULL

\* the validation a settle step resolves, as it was in flight
Resolving == CHOOSE r \in runs : r.path = out'.path /\ r.ticket = out'.settled.ticket

\* C24: when a validation with synchronous and asynchronous validators resolves
\* while its ticket is the current one, the result it resolves with and the error
\* it stores are those of the first validator, in the order of attachment, that
\* rejected the value, whether it answered synchronously or with a promise.
C24_FirstFailureAcrossSyncAndAsync ==
  [][(out'.op = "settle" /\ ~IsStale(Bundle, Resolving) /\ Has(Bundle, out'.path)) =>
       LET run == Resolving
       IN IF Rejecting(run.tasks, run.value) = {}
          THEN out'.ret.ok /\ fields'[run.path].error = NULL
          ELSE LET first == ValidatorResult(FirstRejecting(run.tasks, run.value), run.value)
               IN /\ ~out'.ret.ok /\ out'.ret.message = first.message
                  /\ fields'[run.path].error = Coalesce(first.message, NULL)]_vars

\* One field that comes and goes, with validators attached through addValidator
\* only and removers called at any time, any number of times.
NextRemove ==
  \/ \E m \in {"controlled", "uncontrolled"} :
       Register("p", [mode |-> m, initialValue |-> "a", validate |-> UNDEF])
  \/ Unregister("p")
  \/ \E v \in {"vS", "vT"} : AddValidator("p", v)
  \/ \E r \in removers : Remover(r)
  \/ \E v \in {"a", "b"} : SetControlledValue("p", v)
  \/ Validate("p")

SpecRemove == Init /\ [][NextRemove]_vars

\* every validator attached to the path was taken away by its remover since: no
\* remover handed out for the path has its validator in its Set
AllRemoved(path) ==
  \A r \in removers : r.path = path => r.validator \notin SeqToSet(lists[r.list])

\* C25: validate("p") on a registered field without validators, none attached
\* ever or each removed by its remover, calls no validator, returns {ok: true}
\* synchronously and leaves the error of the field null.
C25_NoValidatorClearsError ==
  [][(out'.op = "validate" /\ Has(Bundle, "p") /\ AllRemoved("p")) =>
       /\ out'.validated = <<>>
       /\ out'.ret = [kind |-> "sync", ok |-> TRUE, message |-> UNDEF]
       /\ getError(Bundle, "p")' = NULL]_vars

\* a validate call on a field whose value its validators would reject found no
\* validator, each having been removed, and the error is null
C25_Witness ==
  /\ out.op = "validate" /\ out.validated = <<>> /\ Has(Bundle, "p")
  /\ removers # {} /\ AllRemoved("p")
  /\ getValue(Bundle, "p") = "b" /\ getError(Bundle, "p") = NULL

\* C26: a remover takes only its own validator away from the field: called on a
\* registered field, at any time and any number of times, it leaves the
\* validators validate("p") runs as they were, in the same order, but for the
\* validator it was handed out for.
C26_RemoverDetachesOnlyItsValidator ==
  [][(out'.op = "remover" /\ Has(Bundle, "p")) =>
       ValidatorsOf(Bundle, "p")' =
         SelectSeq(ValidatorsOf(Bundle, "p"), LAMBDA v : v # out'.arg)]_vars

\* Two controlled fields, the first with synchronous or asynchronous validators
\* given at registration, the second with a synchronous one, and validate calls
\* without a path.
NextForm ==
  \/ \E v \in {"vS", "vA"} :
       Register("p", [mode |-> "controlled", initialValue |-> "a", validate |-> v])
  \/ Register("q", [mode |-> "controlled", initialValue |-> "a", validate |-> "vT"])
  \/ \E path \in {"p", "q"}, v \in {"a", "b"} : SetControlledValue(path, v)
  \/ ValidateAll
  \/ \E r \in runs : SettleField(r)
  \/ \E r \in runs : SettleForm(r)

SpecForm == Init /\ [][NextForm]_vars

\* the result validate(path) gives synchronously, from the validators of the field
SyncResultOf(path) ==
  LET tasks == ValidatorsOf(Bundle, path)
      value == getValue(Bundle, path)
  IN IF Rejecting(tasks, value) = {} THEN [ok |-> TRUE, message |-> UNDEF]
     ELSE [ok |-> FALSE, message |-> ValidatorResult(FirstRejecting(tasks, value), value).message]

\* the field has a validator that answers with a promise
Asynchronous(path) ==
  \E i \in 1..Len(ValidatorsOf(Bundle, path)) :
    ValidatorResult(ValidatorsOf(Bundle, path)[i], getValue(Bundle, path)).async

\* the validators of the fields from the i-th on, each with the value of its field
RECURSIVE EveryValidator(_)
EveryValidator(i) ==
  IF i > Len(fieldOrder) THEN <<>>
  ELSE [k \in 1..Len(ValidatorsOf(Bundle, fieldOrder[i])) |->
          <<ValidatorsOf(Bundle, fieldOrder[i])[k], getValue(Bundle, fieldOrder[i])>>]
       \o EveryValidator(i + 1)

\* the first result of the sequence that is not ok, by its place
FirstFailed(results) ==
  CHOOSE k \in 1..Len(results) : ~results[k].ok /\ \A j \in 1..(k - 1) : results[j].ok

\* C27: validate() without a path runs the validators of every registered field
\* once, field after field in registration order; it answers synchronously when
\* no field has an asynchronous validator, with the result of the first field in
\* that order that fails ({ok: true} when none does), and with a promise
\* otherwise, which resolves with the first failing result among those of the
\* fields; the errors of the fields are those the validations of the fields set.
C27_FormValidation ==
  [][/\ out'.op = "validateAll" =>
          /\ out'.validated = EveryValidator(1)
          /\ out'.ret.kind = "promise" <=>
               \E i \in 1..Len(fieldOrder) : Asynchronous(fieldOrder[i])
          /\ out'.ret.kind = "sync" =>
               LET results == [i \in 1..Len(fieldOrder) |-> SyncResultOf(fieldOrder[i])]
               IN /\ IF \A i \in 1..Len(results) : results[i].ok
                     THEN out'.ret.ok /\ out'.ret.message = UNDEF
                     ELSE /\ ~out'.ret.ok
                          /\ out'.ret.message = results[FirstFailed(results)].message
                  /\ \A i \in 1..Len(fieldOrder) :
                       fields'[fieldOrder[i]].error =
                         NextError(SyncResultOf(fieldOrder[i]))
          /\ \A path \in DOMAIN fields :
               Asynchronous(path) => fields'[path].error = fields[path].error
     /\ out'.op = "settleForm" =>
          /\ fields' = fields
          /\ \E form \in Forms(Bundle) \ Forms(Bundle)' :
               IF \A k \in 1..Len(form.parts) : form.parts[k].ok
               THEN out'.ret.ok /\ out'.ret.message = UNDEF
               ELSE /\ ~out'.ret.ok
                    /\ out'.ret.message = form.parts[FirstFailed(form.parts)].message]_vars

\* a validate() over two fields resolved with the failure of the first field, which
\* answered with a promise, the second field having failed synchronously
C27_Witness ==
  /\ out.op = "settleForm" /\ ~out.ret.ok /\ out.ret.message = "eA"
  /\ fieldOrder = <<"p", "q">>
  /\ getError(Bundle, "p") = "eA" /\ getError(Bundle, "q") = "eT"

\* Two fields of either mode, values of every kind read from the DOM, writes that
\* switch a field to controlled mode, touched flags.
NextRead ==
  \/ \E path \in {"p", "q"}, o \in Options({"controlled", "uncontrolled"}, {UNDEF, "a"}, {UNDEF}) :
       Register(path, o)
  \/ \E vp, vq \in Values : Read([x \in {"p", "q"} |-> IF x = "p" THEN vp ELSE vq])
  \/ \E v \in {"a", "b"} : SetControlledValue("p", v)
  \/ MarkTouched("q")

SpecRead == Init /\ [][NextRead]_vars

\* the registered fields of the mode, in registration order
FieldsOfMode(mode) == SelectSeq(fieldOrder, LAMBDA path : fields[path].mode = mode)

\* C28: read(get) calls get once for each uncontrolled field and for no other path;
\* afterwards the mirrored value of each uncontrolled field is what get returned
\* for it and its dirty flag is !Object.is(that value, initialValue), nothing else
\* of its record has changed, and the record of every controlled field is as it was.
C28_ReadMirrorsUncontrolledFields ==
  [][out'.op = "read" =>
       /\ fieldOrder' = fieldOrder
       /\ [i \in 1..Len(out'.got) |-> out'.got[i][1]] = FieldsOfMode("uncontrolled")
       /\ \A i \in 1..Len(out'.got) :
            LET path == out'.got[i][1]
                value == out'.got[i][2]
            IN fields'[path] = [fields[path] EXCEPT
                                  !.uncontrolledValue = value,
                                  !.dirty = ~ObjectIs(value, fields[path].initialValue)]
       /\ \A i \in 1..Len(FieldsOfMode("controlled")) :
            fields'[FieldsOfMode("controlled")[i]] = fields[FieldsOfMode("controlled")[i]]]_vars

\* a read over a controlled field holding "b" and an uncontrolled field, which now
\* mirrors null and is dirty
C28_Witness ==
  /\ out.op = "read" /\ out.got = <<<<"q", NULL>>>>
  /\ Has(Bundle, "p") /\ fields["p"].mode = "controlled" /\ getValue(Bundle, "p") = "b"
  /\ getValue(Bundle, "q") = NULL /\ getDirty(Bundle, "q")

\* One field that register only ever makes uncontrolled, written by
\* setControlledValue and read from the DOM, with and without a subscriber (the
\* write takes the fast path without one); the store has no middleware.
NextSwitch ==
  \/ \E o \in Options({UNDEF, "uncontrolled"}, Values, {UNDEF}) : Register("p", o)
  \/ Unregister("p")
  \/ \E v \in Values : SetControlledValue("p", v)
  \/ \E v \in Values : Read([x \in {"p"} |-> v])
  \/ Subscribe([get |-> "value", path |-> "p"])
  \/ \E id \in DOMAIN subs : Unsubscribe(id)
  \/ Flush

SpecSwitch == Init /\ [][NextSwitch]_vars

\* C29: setControlledValue(p, v) on a registered field in uncontrolled mode does
\* not throw and leaves the field in controlled mode with getValue(p) = v and
\* getDirty(p) = !Object.is(v, initialValue); a read of a field in controlled mode
\* leaves its record as it was.
C29_WriteSwitchesToControlled ==
  [][/\ (out'.op = "setControlledValue" /\ Has(Bundle, out'.path)
          /\ fields[out'.path].mode = "uncontrolled") =>
         /\ out'.thrown = NotThrown
         /\ Has(Bundle', out'.path)
         /\ fields'[out'.path].mode = "controlled"
         /\ getValue(Bundle', out'.path) = out'.arg
         /\ getDirty(Bundle', out'.path)
              = ~ObjectIs(out'.arg, fields[out'.path].initialValue)
     /\ (out'.op = "read" /\ Has(Bundle, "p") /\ fields["p"].mode = "controlled") =>
         /\ fields'["p"] = fields["p"]
         /\ getValue(Bundle', "p") = getValue(Bundle, "p")
         /\ getDirty(Bundle', "p") = getDirty(Bundle, "p")]_vars

\* the field was registered uncontrolled with baseline "a", a subscriber is
\* attached, and setControlledValue(p, "b") has just switched it
C29_Witness ==
  /\ out.op = "setControlledValue" /\ out.path = "p" /\ out.arg = "b"
  /\ Has(Bundle, "p") /\ fields["p"].mode = "controlled"
  /\ fields["p"].initialValue = "a" /\ fields["p"].uncontrolledValue = "a"
  /\ getValue(Bundle, "p") = "b" /\ getDirty(Bundle, "p")
  /\ Len(subscribers) > 0 /\ out.mw # <<>>

\* One controlled field, with or without middleware, a subscriber, a watcher and a
\* listener of commit, so that a write is seen by everything that could see it.
NextNoop ==
  \/ \E iv \in {UNDEF, "a"} :
       Register("p", [mode |-> "controlled", initialValue |-> iv, validate |-> UNDEF])
  \/ MarkDirty("p")
  \/ \E v \in {UNDEF, "a", "b"} : SetControlledValue("p", v)
  \/ Subscribe([get |-> "value", path |-> "p"])
  \/ Watch("p")
  \/ On("commit", Listener("l", "nothing"))
  \/ Flush

SpecNoop == InitMiddleware /\ [][NextNoop]_vars

\* the write setControlledValue(path, value) would change nothing of the field
Redundant(path, value) ==
  /\ Has(Bundle, path) /\ fields[path].mode = "controlled"
  /\ ObjectIs(fields[path].controlledValue, value)
  /\ fields[path].dirty = ~ObjectIs(value, fields[path].initialValue)

\* C30: setControlledValue(p, v) on a controlled field whose value is Object.is-equal
\* to v and whose dirty flag is already !Object.is(v, initialValue) changes no field
\* record, enters no middleware, does not advance the epoch, emits no commit event,
\* queues no watch event and schedules no flush.
C30_RedundantWriteIsNoOp ==
  [][(out'.op = "setControlledValue" /\ Redundant(out'.path, out'.arg)) =>
       /\ fields' = fields /\ fieldOrder' = fieldOrder
       /\ out'.mw = <<>>
       /\ out'.epochs = 0
       /\ out'.ev = <<>> /\ out'.heard = <<>>
       /\ watchQueue' = watchQueue
       /\ isNotificationScheduled' = isNotificationScheduled
       /\ microtasks' = microtasks
       /\ hasChangedInBatch' = hasChangedInBatch
       /\ changedPathsInBatch' = changedPathsInBatch]_vars

\* a redundant write of "b" to a dirty field, on a store with middleware, a
\* subscriber, a watcher and a listener of commit, and no flush pending
C30_Witness ==
  /\ out.op = "setControlledValue" /\ out.arg = "b" /\ out.mw = <<>>
  /\ Has(Bundle, "p") /\ fields["p"].controlledValue = "b" /\ fields["p"].dirty
  /\ fields["p"].initialValue = "a"
  /\ Len(middlewareBag) > 0 /\ Len(subscribers) > 0
  /\ totalSpecificWatchers > 0 /\ totalEventListeners > 0
  /\ ~isNotificationScheduled

\* A registered field p next to a path q that never is, on a store with or without
\* middleware; q has a subscriber, a watcher and a validator attached, and commit
\* has a listener.
NextMissing ==
  \/ Register("p", [mode |-> "controlled", initialValue |-> "a", validate |-> UNDEF])
  \/ \E v \in {"a", "b"} : SetControlledValue("p", v)
  \/ MarkTouched("q")
  \/ MarkDirty("q")
  \/ \E v \in {UNDEF, "b"} : SetControlledValue("q", v)
  \/ Validate("q")
  \/ AddValidator("q", "vS")
  \/ \E path \in {"p", "q"} : Subscribe([get |-> "value", path |-> path])
  \/ Watch("q")
  \/ On("commit", Listener("l", "nothing"))
  \/ Flush

SpecMissing == InitMiddleware /\ [][NextMissing]_vars

\* C31: markTouched, markDirty, setControlledValue and validate on a path without a
\* record do not throw, create no record, change no record, queue no subscriber or
\* watcher notification and emit no commit; validate returns {ok: true}, and the
\* getters still answer false, false, null and undefined for the path.
C31_UnregisteredPathIsNoOp ==
  [][(/\ out'.op \in {"markTouched", "markDirty", "setControlledValue", "validate"}
      /\ ~Has(Bundle, out'.path)) =>
       /\ out'.thrown = NotThrown
       /\ fields' = fields /\ fieldOrder' = fieldOrder
       /\ hasChangedInBatch' = hasChangedInBatch
       /\ changedPathsInBatch' = changedPathsInBatch
       /\ watchQueue' = watchQueue
       /\ isNotificationScheduled' = isNotificationScheduled
       /\ microtasks' = microtasks
       /\ \A i \in 1..Len(out'.ev) : out'.ev[i] # "commit"
       /\ out'.op = "validate" => (out'.ret.kind = "sync" /\ out'.ret.ok)
       /\ ~getTouched(Bundle', out'.path) /\ ~getDirty(Bundle', out'.path)
       /\ getError(Bundle', out'.path) = NULL /\ getValue(Bundle', out'.path) = UNDEF]_vars

\* markTouched("q") has gone through the middleware of a store where p is
\* registered and q is subscribed to, watched and given a validator
C31_Witness ==
  /\ out.op = "markTouched" /\ out.path = "q" /\ ~Has(Bundle, "q") /\ Has(Bundle, "p")
  /\ Len(out.mw) > 1
  /\ "q" \in DOMAIN specificWatchers /\ "q" \in DOMAIN fieldValidators
  /\ \E id \in DOMAIN subs : subs[id].selector.path = "q"
  /\ totalEventListeners > 0

\* One field registered again and again with every mode, baseline and validator,
\* unregistered, written, read, marked and validated.
NextTouched ==
  \/ \E o \in Options({UNDEF, "controlled", "uncontrolled"}, {UNDEF, "a", "b"},
                       {UNDEF, "vS"}) : Register("p", o)
  \/ Unregister("p")
  \/ MarkTouched("p")
  \/ MarkDirty("p")
  \/ \E v \in {"a", "b"} : SetControlledValue("p", v)
  \/ \E v \in {"a", "b"} : Read([x \in {"p"} |-> v])
  \/ Validate("p")

SpecTouched == Init /\ [][NextTouched]_vars

\* C32: a field whose touched flag is true keeps it true for as long as it stays
\* registered, whatever setControlledValue, markDirty, read, validate and register
\* calls are made on it.
C32_TouchedIsNeverReset ==
  [][(getTouched(Bundle, "p") /\ Has(Bundle', "p")) => getTouched(Bundle', "p")]_vars

\* a touched field has just been registered again, controlled, with a new baseline
C32_Witness ==
  /\ out.op = "register" /\ out.existed /\ out.arg = "b"
  /\ Has(Bundle, "p") /\ fields["p"].mode = "controlled"
  /\ fields["p"].initialValue = "b" /\ ~fields["p"].dirty
  /\ getTouched(Bundle, "p")

-----------------------------------------------------------------------------
(* Path utilities: getAtPath and setAtPath on object graphs.               *)
(*                                                                         *)
(* Objects and arrays live in a heap (a sequence of nodes); a value is a   *)
(* primitive token or the reference of a node, so that === on objects is   *)
(* equality of references. A node is [array, props]: props maps own keys   *)
(* (array indexes as their decimal strings) to values.                     *)

\* the references of the heap, by position
Ref == <<"@1", "@2", "@3", "@4", "@5", "@6", "@7", "@8", "@9", "@10", "@11", "@12">>

\* primitives next to undefined and null: a number, a one-character string, NaN,
\* and a function (one that returns undefined when it is called)
NUM == "5"
STR == "s"
NAN == "NaN"
FN == "function"

Leaves == {UNDEF, NULL, NUM, STR, NAN, FN}

\* the longest token list
MaxDepth == 2
\* setAtPath calls made one after the other, each on the result of the one before
MaxCalls == 1

Tokens == {"a", "0"}

\* the tokens /^\d+$/ matches
Digits == {"0", "1"}

TokenLists == UNION {[1..n -> Tokens] : n \in 1..MaxDepth}

IsRef(v) == \E k \in 1..Len(Ref) : Ref[k] = v

Node(h, v) == h[CHOOSE k \in 1..Len(Ref) : Ref[k] = v]

\* Array.isArray
IsArray(h, v) == IsRef(v) /\ Node(h, v).array

\* a === b
StrictEquals(a, b) == a = b /\ a # NAN

\* a new object or array: the heap with it, and its reference
Allocate(h, node) == [heap |-> Append(h, node), res |-> Ref[Len(h) + 1]]

\* the own enumerable properties {...v} copies: those of an object or an array, the
\* characters of a string, none of another primitive
Spread(h, v) ==
  IF IsRef(v) THEN Node(h, v).props
  ELSE IF v = STR THEN ("0" :> STR)
  ELSE EmptyMap

\* the loop of getAtPath from the i-th token on
RECURSIVE GetFrom(_, _, _, _)
GetFrom(h, current, tokens, i) ==
  IF i > Len(tokens) THEN current
  ELSE IF current \in {UNDEF, NULL} THEN UNDEF
  ELSE IF IsArray(h, current)
       \* current[Number(token)]: undefined when the token is no index
       THEN GetFrom(h, IF tokens[i] \in Digits /\ tokens[i] \in DOMAIN Node(h, current).props
                       THEN Node(h, current).props[tokens[i]] ELSE UNDEF, tokens, i + 1)
  ELSE IF IsRef(current)
       THEN GetFrom(h, IF tokens[i] \in DOMAIN Node(h, current).props
                       THEN Node(h, current).props[tokens[i]] ELSE UNDEF, tokens, i + 1)
  ELSE UNDEF

getAtPath(h, obj, tokens) == GetFrom(h, obj, tokens, 1)

\* valueOrUpdater, called with prev when it is a function
NextValue(valueOrUpdater, prev) == IF valueOrUpdater = FN THEN UNDEF ELSE valueOrUpdater

\* the end of setAtPath on an inner token: U is what the recursive call returned;
\* obj itself when the child came back as it was, a clone with the new child otherwise
Rebuilt(obj, array, source, head, prev, U) ==
  IF StrictEquals(U.res, prev) THEN [heap |-> U.heap, res |-> obj]
  ELSE Allocate(U.heap, [array |-> array, props |-> MapSet(source, head, U.res)])

\* prev ?? (/^\d+$/.test(rest[0]) ? [] : {})
Child(h, prev, rest) ==
  IF prev \in {UNDEF, NULL}
  THEN Allocate(h, [array |-> rest[1] \in Digits, props |-> EmptyMap])
  ELSE [heap |-> h, res |-> prev]

\* setAtPath: the heap after the call and the value returned. The branch for an
\* array with a numeric head clones the array, the other one spreads obj into a
\* plain object; both go on alike.
RECURSIVE setAtPath(_, _, _, _)

Descend(C, obj, array, source, head, prev, rest, valueOrUpdater) ==
  Rebuilt(obj, array, source, head, prev, setAtPath(C.heap, C.res, rest, valueOrUpdater))

setAtPath(h, obj, tokens, valueOrUpdater) ==
  IF tokens = <<>> THEN [heap |-> h, res |-> obj]
  ELSE
    LET head == Head(tokens)
        rest == Tail(tokens)
        array == IsArray(h, obj) /\ head \in Digits
        source == IF array THEN Node(h, obj).props ELSE Spread(h, obj)
        prev == IF head \in DOMAIN source THEN source[head] ELSE UNDEF
        nextValue == NextValue(valueOrUpdater, prev)
    IN IF rest = <<>>
       THEN IF ObjectIs(prev, nextValue) THEN [heap |-> h, res |-> obj]
            ELSE Allocate(h, [array |-> array, props |-> MapSet(source, head, nextValue)])
       ELSE Descend(Child(h, prev, rest), obj, array, source, head, prev, rest,
                    valueOrUpdater)

\* The objects the utilities are given at first: a root object or array that is
\* empty or holds, under one key, a primitive or an inner object or array (itself
\* empty or holding a primitive), and next to it a sibling object off every path.
Sibling == [array |-> FALSE, props |-> EmptyMap]

KeysOf(array) == IF array THEN {"0"} ELSE {"a", "0"}

Inner ==
  {[array |-> ar, props |-> EmptyMap] : ar \in BOOLEAN}
  \cup UNION {{[array |-> ar, props |-> (k :> v)] : k \in KeysOf(ar), v \in Leaves} :
                ar \in BOOLEAN}

\* the root holding child under key, with the sibling beside it
Root(array, key, child) ==
  [array |-> array,
   props |-> (key :> child) @@ ((IF array THEN "1" ELSE "b") :> Ref[1])]

Graph(heap) ==
  [heap |-> heap, obj |-> Ref[Len(heap)], op |-> "none", tokens |-> <<>>,
   value |-> UNDEF, calls |-> 0]

InitTrees ==
  {Graph(<<Sibling, [array |-> ar, props |-> EmptyMap]>>) : ar \in BOOLEAN}
  \cup UNION {{Graph(<<Sibling, Root(ar, k, v)>>) : k \in KeysOf(ar), v \in Leaves} :
                ar \in BOOLEAN}
  \cup UNION {{Graph(<<Sibling, n, Root(ar, k, Ref[2])>>) : k \in KeysOf(ar), n \in Inner} :
                ar \in BOOLEAN}

\* setAtPath(obj, tokens, value) on the current object; the result is the next one
SetAtPath(tokens, value) ==
  /\ tree.calls < MaxCalls
  /\ Len(tree.heap) + Len(tokens) <= Len(Ref)
  /\ LET R == setAtPath(tree.heap, tree.obj, tokens, value)
     IN tree' = [heap |-> R.heap, obj |-> R.res, op |-> "setAtPath", tokens |-> tokens,
                 value |-> value, calls |-> tree.calls + 1]
  /\ UNCHANGED <<fields, fieldOrder, fieldValidators, lists, removers, cleanups,
                 validationTracker, runs, subs, subscribers, subscribersByPath,
                 subscriberCount, watchers, specificWatchers, totalSpecificWatchers,
                 totalEventListeners, eventListeners, listenerSets, offs, pluginCleanups,
                 middlewareBag, hasMiddleware, simpleWriteFastPathEnabled,
                 isNotificationScheduled, hasChangedInBatch, changedPathsInBatch,
                 watchQueue, microtasks, out, moved, scenario, twin, handles>>

InitPath ==
  /\ InitStore /\ scenario = [on |-> FALSE, stage |-> 0, v1 |-> UNDEF] /\ twin = NoTwin
  /\ tree \in InitTrees /\ handles = NoHandles

NextPath ==
  \E tokens \in TokenLists, value \in Leaves \cup {Ref[k] : k \in 1..Len(tree.heap)} :
     SetAtPath(tokens, value)

SpecPath == InitPath /\ [][NextPath]_vars

\* C33: setAtPath(obj, tokens, getAtPath(obj, tokens)) with a non-empty token list
\* returns obj itself.
C33_SetCurrentValueReturnsSame ==
  [][(/\ tree'.op = "setAtPath"
      /\ ObjectIs(tree'.value, getAtPath(tree.heap, tree.obj, tree'.tokens))) =>
       tree'.obj = tree.obj]_vars

\* the subtrees off the path are shared: at every object or array of obj along the
\* tokens, from the i-th token on, each key other than the token holds in the
\* result the very value it holds in obj
RECURSIVE OffPathShared(_, _, _, _, _)
OffPathShared(h, old, new, tokens, i) ==
  \/ i > Len(tokens)
  \/ ~IsRef(old)
  \/ /\ IsRef(new)
     /\ \A k \in DOMAIN Node(h, old).props \ {tokens[i]} :
          k \in DOMAIN Node(h, new).props /\ Node(h, new).props[k] = Node(h, old).props[k]
     /\ OffPathShared(h, getAtPath(h, old, <<tokens[i]>>), getAtPath(h, new, <<tokens[i]>>),
                      tokens, i + 1)

\* C34: for a value v that is no function and differs from getAtPath(obj, tokens),
\* getAtPath(setAtPath(obj, tokens, v), tokens) is v, getAtPath(obj, tokens) is what
\* it was, and every subtree of obj off the path is shared with the result.
C34_SetThenGet ==
  [][(/\ tree'.op = "setAtPath"
      /\ tree'.value # FN
      /\ ~ObjectIs(tree'.value, getAtPath(tree.heap, tree.obj, tree'.tokens))) =>
       /\ ObjectIs(getAtPath(tree'.heap, tree'.obj, tree'.tokens), tree'.value)
       /\ getAtPath(tree'.heap, tree.obj, tree'.tokens)
            = getAtPath(tree.heap, tree.obj, tree'.tokens)
       /\ OffPathShared(tree'.heap, tree.obj, tree'.obj, tree'.tokens, 1)]_vars

\* One controlled field and subscriptions on its value whose callbacks do nothing
\* or write "b" to the field, which during a flush is a mutation made while the
\* flush is running.
NextReenter ==
  \/ Register("p", [mode |-> "controlled", initialValue |-> "a", validate |-> UNDEF])
  \/ \E v \in {"a", "b"} : SetControlledValue("p", v)
  \/ \E c \in {NoCallback, Writes} :
       SubscribeCalling([get |-> "value", path |-> "p"], c)
  \/ Flush

SpecReenter == Init /\ [][NextReenter]_vars

\* a flush has just run in which a callback made a mutation that changed the state
Reentered ==
  /\ out.op = "flush"
  /\ \E i \in 1..Len(out.ev) : out.ev[i] = "commit"

\* C35: when a callback has changed the state during a flush, every subscription
\* whose callback has not seen the value its selector now has will see it without
\* any further call: when the flush is over, either a flush is queued or no
\* subscription is behind.
C35_ReentrantMutationIsDelivered ==
  (Reentered /\ microtasks = 0) => Behind(Bundle) = {}

\* One controlled field and subscriptions on its value whose callbacks do nothing
\* or throw.
NextThrow ==
  \/ Register("p", [mode |-> "controlled", initialValue |-> "a", validate |-> UNDEF])
  \/ \E v \in {"a", "b"} : SetControlledValue("p", v)
  \/ \E c \in {NoCallback, Throwing} :
       SubscribeCalling([get |-> "value", path |-> "p"], c)
  \/ Flush

SpecThrow == Init /\ [][NextThrow]_vars

\* a flush has just ended with the exception of a callback
FlushFailed == out.op = "flush" /\ out.thrown # NotThrown

\* setControlledValue has just changed the state of a store that has subscribers
Mutated ==
  /\ out.op = "setControlledValue" /\ Len(subscribers) > 0
  /\ \E i \in 1..Len(out.ev) : out.ev[i] = "commit"

\* C36: after a flush that a callback ended with an exception, a mutation that
\* changes the state still leaves a flush scheduled for the subscribers.
C36_FailedFlushKeepsNotifying ==
  [][(FlushFailed /\ Mutated') => (isNotificationScheduled' /\ microtasks' > 0)]_vars

\* One field registered again and again, with or without a validator, and the
\* unregister functions of the registrations called in any order, any number of times.
MaxRegistrations == 2

InitCleanup ==
  /\ InitStore /\ scenario = [on |-> FALSE, stage |-> 0, v1 |-> UNDEF] /\ twin = NoTwin
  /\ tree = NoTree /\ handles = [on |-> TRUE, made |-> 0, called |-> {}]

\* the call of the unregister function that the id-th register call returned
CallCleanup(path, id) ==
  /\ id \in 1..handles.made
  /\ Do(unregister(Begin(Bundle, "unregister", path, HandleNames[id]), path))

NextCleanup ==
  \/ /\ handles.made < MaxRegistrations
     /\ \E o \in Options({"controlled"}, {"a"}, {UNDEF, "vS"}) : Register("p", o)
  \/ \E id \in 1..MaxRegistrations : CallCleanup("p", id)
  \/ \E v \in {"a", "b"} : SetControlledValue("p", v)
  \/ MarkTouched("p")
  \/ Validate("p")

SpecCleanup == InitCleanup /\ [][NextCleanup]_vars

\* C37: the call of an unregister function that has been called before removes no
\* field record and drops no validator; the record and the validators of a later
\* registration of the path are as they were.
C37_SecondCleanupRemovesNothing ==
  [][(out'.op = "unregister" /\ out'.arg \in handles.called) =>
       /\ fields' = fields /\ fieldOrder' = fieldOrder
       /\ fieldValidators' = fieldValidators]_vars

\* C38: a validation that resolves after its path was unregistered leaves what
\* getError answers for the path as it was, whether the path is still unregistered
\* or has been registered again.
C38_LateResultKeepsError ==
  [][(out'.op = "settle" /\ out'.settled.detached) =>
       \A path \in {out'.path} : getError(Bundle, path)' = getError(Bundle, path)]_vars

\* the validation was the latest of its path and failed, its path was unregistered
\* and registered again before it resolved, and the new record holds no error
C38_Witness ==
  /\ out.op = "settle" /\ out.settled.detached
  /\ out.ret.kind = "resolved" /\ ~out.ret.ok
  /\ out.settled.error # NULL
  /\ Has(Bundle, out.path) /\ getError(Bundle, out.path) = NULL

\* Two fields and two subscriptions, among them selectors whose dependencies change
\* with the touched flag and callbacks that call the unsubscribe function of another
\* subscription: the index followed through subscribe, unsubscribe and the flushes.
NextIndex ==
  \/ \E path \in {"p", "q"}, o \in Options({"controlled"}, {"a"}, {UNDEF}) : Register(path, o)
  \/ Unregister("p")
  \/ MarkTouched("p")
  \/ \E v \in {"a", "b"} : SetControlledValue("q", v)
  \/ \E sel \in [get : {"value", "pick"}, path : {"p"}, other : {"q"}],
        c \in {NoCallback} \cup {[do |-> "unsubscribe", arg |-> i] : i \in 1..MaxCallingSubs} :
       SubscribeCalling(sel, c)
  \/ \E id \in 1..MaxCallingSubs : Unsubscribe(id)
  \/ Flush

SpecIndex == Init /\ [][NextIndex]_vars

\* the subscriptions the index lists under a path
ListedUnder(path) ==
  IF path \in DOMAIN subscribersByPath THEN SeqToSet(subscribersByPath[path]) ELSE {}

\* C39: between the flushes the path index is the inverse of the dependency sets:
\* a subscription is listed under a path exactly when it is subscribed and the path
\* is one of its dependencies, and no path maps to an empty set of subscriptions.
C39_IndexMirrorsDependencies ==
  /\ \A path \in {"p", "q"} \cup DOMAIN subscribersByPath :
       ListedUnder(path) = {id \in Live : path \in subs[id].dependencies}
  /\ \A path \in DOMAIN subscribersByPath : subscribersByPath[path] # <<>>

\* One field registered again and again with any mode and any initial value, written,
\* marked dirty and read from the DOM.
NextClean ==
  \/ \E o \in Options({UNDEF, "controlled", "uncontrolled"}, Values, {UNDEF}) :
       Register("p", o)
  \/ \E v \in Values : SetControlledValue("p", v)
  \/ MarkDirty("p")
  \/ \E v \in Values : Read([x \in {"p"} |-> v])

SpecClean == Init /\ [][NextClean]_vars

\* C40: a registered field that is not dirty has a value Object.is-equal to its
\* initialValue, in every state register, setControlledValue, markDirty and read lead to.
C40_CleanFieldHoldsInitialValue ==
  \A path \in DOMAIN fields :
    ~getDirty(Bundle, path) => ObjectIs(getValue(Bundle, path), fields[path].initialValue)

====
